---- MODULE Spec2Model ----
(***************************************************************************)
(* PostBot: the post scheduling and dispatch engine.                       *)
(*                                                                         *)
(* The Post Store (db.py), the Job Registry (the APScheduler instance      *)
(* shared by bot.py, handlers/posts.py) and the handlers that run on the   *)
(* single asyncio event loop.  A handler is a task; every awaited store    *)
(* or delivery call is one step of it: the step performs the awaited call  *)
(* and runs the synchronous code that follows it up to the next await.     *)
(***************************************************************************)
EXTENDS Integers, Sequences, FiniteSets, TLC

VARIABLES posts, nextId, participants, reactions, stats, history, tz, jobs, nextMsg, tasks, pool

vars == <<posts, nextId, participants, reactions, stats, history, tz, jobs, nextMsg, tasks, pool>>

(***************************************************************************)
(* Bounds of the model.                                                    *)
(***************************************************************************)
MaxPosts == 1
MaxTasks == 1
MaxFires == 2
MaxTimes == 11

(***************************************************************************)
(* Program constants.                                                      *)
(***************************************************************************)
RemoveLimit == 10

Users == {1, 2}
Chats == {100}

\* get_chats: the chats a user has registered with the bot.
ChatsOf(uid) == IF uid = 1 THEN <<100>> ELSE <<>>
BadToken == 0

\* A request without the token parameter.
NoToken == -1
Zones == {"Asia/Jerusalem", "UTC"}
DefaultZone == "Asia/Jerusalem"

Max(a, b) == IF a >= b THEN a ELSE b

(***************************************************************************)
(* Time and date strings.  scheduled_time is a comma separated list; it is *)
(* kept as the sequence tm.split(",") yields, "" being the empty sequence. *)
(* A missing scheduled_date is "", missing days_of_week <<>>, a missing    *)
(* day_of_month 0: the values Python treats as false.                      *)
(***************************************************************************)
BadParse == [h |-> -1, m |-> -1]

\* The "HH:MM" strings the model uses and the hour each one parses to.
Clock == <<"09:00", "18:00", "00:00", "01:00", "02:00", "03:00", "04:00",
           "05:00", "06:00", "07:00", "08:00", "10:00", "11:00">>

Hour == <<9, 18, 0, 1, 2, 3, 4, 5, 6, 7, 8, 10, 11>>

\* h, m = map(int, t.strip().split(":")); any other string raises.
ParseTime(t) ==
    IF \E i \in 1..Len(Clock) : Clock[i] = t
    THEN [h |-> Hour[CHOOSE i \in 1..Len(Clock) : Clock[i] = t], m |-> 0]
    ELSE BadParse

BadDate == [d |-> -1, mo |-> -1, y |-> -1]

ParseDate(s) ==
    CASE s = "01.12.2026" -> [d |-> 1, mo |-> 12, y |-> 2026]
      [] OTHER -> BadDate

(***************************************************************************)
(* Post rows.                                                              *)
(***************************************************************************)
NoPost ==
    [post_id |-> 0, chat_id |-> 0, owner_id |-> 0, schedule_type |-> "none",
     scheduled_time |-> <<>>, scheduled_date |-> "", days_of_week |-> <<>>,
     day_of_month |-> 0, is_active |-> 0, execution_count |-> 0,
     sent_message_id |-> 0, last_sent_at |-> 0, pin_post |-> 0,
     media_type |-> "text", media_file_id |-> "", has_participate_button |-> 0,
     url_buttons |-> <<>>, reaction_buttons |-> <<>>]

NewPost(id, chat, owner, st, tm, date, dow, dom, pin) ==
    [post_id |-> id, chat_id |-> chat, owner_id |-> owner, schedule_type |-> st,
     scheduled_time |-> tm, scheduled_date |-> date, days_of_week |-> dow,
     day_of_month |-> dom, is_active |-> 1, execution_count |-> 0,
     sent_message_id |-> 0, last_sent_at |-> 0, pin_post |-> pin,
     media_type |-> "text", media_file_id |-> "", has_participate_button |-> 0,
     url_buttons |-> <<>>, reaction_buttons |-> <<>>]

PostIds == 1..MaxPosts

Exists(p) == posts[p].post_id # 0

IsActive(post) == post.is_active # 0

(***************************************************************************)
(* Job Registry: job id "post_<pid>_<i>" is the key <<pid, i>>.            *)
(***************************************************************************)
JobsOf(J, pid) == {k \in DOMAIN J : k[1] = pid}

IndicesOf(J, pid) == {k[2] : k \in JobsOf(J, pid)}

Without(J, ks) == [k \in DOMAIN J \ ks |-> J[k]]

RemoveJob(J, pid) ==
    Without(J, {<<pid, suffix>> : suffix \in 0..(RemoveLimit - 1)})

RemoveAllJobs(J) == Without(J, DOMAIN J)

DateTriggerServerZone(date, t, zone) ==
    [kind |-> "date", date |-> ParseDate(date), dow |-> {}, day |-> 0,
     h |-> ParseTime(t).h, m |-> ParseTime(t).m, tz |-> DefaultZone]

DateTrigger(date, t, zone) ==
    [kind |-> "date", date |-> ParseDate(date), dow |-> {}, day |-> 0,
     h |-> ParseTime(t).h, m |-> ParseTime(t).m, tz |-> zone]

CronTrigger(dow, day, t, zone) ==
    [kind |-> "cron", date |-> BadDate, dow |-> dow, day |-> day,
     h |-> ParseTime(t).h, m |-> ParseTime(t).m, tz |-> zone]

DaySet(dow) == {dow[i] : i \in 1..Len(dow)}

\* Index (from 1) of the first time string of tm whose parsing raises;
\* Len(tm) + 1 when none does.
FirstBad(tm, dateBad) ==
    IF dateBad THEN 1
    ELSE IF \E i \in 1..Len(tm) : ParseTime(tm[i]) = BadParse
         THEN CHOOSE i \in 1..Len(tm) :
                  /\ ParseTime(tm[i]) = BadParse
                  /\ \A j \in 1..(i - 1) : ParseTime(tm[j]) # BadParse
         ELSE Len(tm) + 1

TriggerOf(post, t, zone) ==
    CASE post.schedule_type = "once" -> DateTrigger(post.scheduled_date, t, zone)
      [] post.schedule_type = "daily" -> CronTrigger({}, 0, t, zone)
      [] post.schedule_type = "weekly" -> CronTrigger(DaySet(post.days_of_week), 0, t, zone)
      [] OTHER -> CronTrigger({}, post.day_of_month, t, zone)

\* Whether one of the four branches of _register_job is taken.
Schedulable(post) ==
    \/ post.schedule_type = "once" /\ post.scheduled_date # "" /\ post.scheduled_time # <<>>
    \/ post.schedule_type = "daily" /\ post.scheduled_time # <<>>
    \/ post.schedule_type = "weekly" /\ post.scheduled_time # <<>> /\ post.days_of_week # <<>>
    \/ post.schedule_type = "monthly" /\ post.scheduled_time # <<>> /\ post.day_of_month # 0

\* Every job added under the one id "post_<pid>_0".
AddJobsOneId(J, post, zone) ==
    LET tm == post.scheduled_time
        new == {<<post.post_id, 0>>}
    IN [jobs |-> [k \in DOMAIN J \cup new |->
                     IF k \in new THEN TriggerOf(post, tm[Len(tm)], zone) ELSE J[k]],
        raised |-> FALSE]

AddJobs(J, post, zone) ==
    LET tm == post.scheduled_time
        dateBad == post.schedule_type = "once" /\ ParseDate(post.scheduled_date) = BadDate
        fb == FirstBad(tm, dateBad)
        new == {<<post.post_id, i>> : i \in 0..(fb - 2)}
    IN [jobs |-> [k \in DOMAIN J \cup new |->
                     IF k \in new THEN TriggerOf(post, tm[k[2] + 1], zone) ELSE J[k]],
        raised |-> fb <= Len(tm)]

\* The synchronous tail of _register_job, after get_post and get_tz.
RegisterJobs(J, post, zone) ==
    LET J1 == RemoveJob(J, post.post_id)
    IN IF Schedulable(post) THEN AddJobs(J1, post, zone)
       ELSE [jobs |-> J1, raised |-> FALSE]

(***************************************************************************)
(* Store operations (db.py).                                               *)
(***************************************************************************)
SetRow(P, pid, row) == [P EXCEPT ![pid] = row]

\* UPDATE scheduled_posts SET ... WHERE post_id=?: no row, no change.
SetActive(P, pid, v) ==
    IF pid \in DOMAIN P /\ P[pid].post_id # 0 THEN [P EXCEPT ![pid].is_active = v] ELSE P

SetTime(P, pid, tm) ==
    IF pid \in DOMAIN P /\ P[pid].post_id # 0 THEN [P EXCEPT ![pid].scheduled_time = tm] ELSE P

SetPin(P, pid, v) ==
    IF pid \in DOMAIN P /\ P[pid].post_id # 0 THEN [P EXCEPT ![pid].pin_post = v] ELSE P

\* db.update_post without the execution_count column.
SetSentKeepsCount(P, pid, mid, count, now) ==
    IF pid \in DOMAIN P /\ P[pid].post_id # 0
    THEN [P EXCEPT ![pid].sent_message_id = mid, ![pid].last_sent_at = now]
    ELSE P

SetSent(P, pid, mid, count, now) ==
    IF pid \in DOMAIN P /\ P[pid].post_id # 0
    THEN [P EXCEPT ![pid].sent_message_id = mid, ![pid].execution_count = count,
                   ![pid].last_sent_at = now]
    ELSE P

DeleteRow(P, pid) == IF pid \in DOMAIN P THEN [P EXCEPT ![pid] = NoPost] ELSE P

Matches(post, uid, filter) ==
    /\ post.post_id # 0
    /\ post.owner_id = uid
    /\ filter = "active" => post.is_active = 1
    /\ filter = "inactive" => post.is_active = 0

DeleteBulk(P, uid, filter) ==
    [p \in DOMAIN P |-> IF Matches(P[p], uid, filter) THEN NoPost ELSE P[p]]

DisableBulk(P, uid) ==
    [p \in DOMAIN P |-> IF Matches(P[p], uid, "all") THEN [P[p] EXCEPT !.is_active = 0] ELSE P[p]]

GetPost(pid) == IF pid \in DOMAIN posts THEN posts[pid] ELSE NoPost

CountParticipants(pid) == Cardinality({x \in participants : x[1] = pid})

DeleteParticipants(S, pid) == {x \in S : x[1] # pid}

\* An INSERT that reports success whether or not the row was there.
AddParticipantAlways(S, pid, uid) ==
    [rows |-> S \cup {<<pid, uid>>}, added |-> TRUE]

\* INSERT INTO participants under UNIQUE(post_id, user_id): the row is added
\* and True returned, or the insert fails and False is returned.
AddParticipant(S, pid, uid) ==
    [rows |-> S \cup {<<pid, uid>>}, added |-> <<pid, uid>> \notin S]

\* Reaction rows <<post_id, button_id, user_id>>, UNIQUE over all three.
VotesOf(R, pid, uid) == {x[2] : x \in {y \in R : y[1] = pid /\ y[3] = uid}}

\* A lookup that never finds a vote.
UserReactionsNone(R, pid, uid) == {""}

\* get_user_reaction: the button of one row of the user, "" for None.
UserReactions(R, pid, uid) ==
    IF VotesOf(R, pid, uid) = {} THEN {""} ELSE VotesOf(R, pid, uid)

\* A DELETE by post and button only.
RemoveReactionAnyUser(R, pid, button_id, uid) ==
    {x \in R : ~(x[1] = pid /\ x[2] = button_id)}

RemoveReaction(R, pid, button_id, uid) == R \ {<<pid, button_id, uid>>}

AddReaction(R, pid, button_id, uid) == R \cup {<<pid, button_id, uid>>}

CountReactions(R, pid, button_id) ==
    Cardinality({x \in R : x[1] = pid /\ x[2] = button_id})

\* An UPDATE that assigns the three counters instead of adding to them.
AssignStats(S, uid, created, sent, failed) ==
    IF uid \in DOMAIN S
    THEN [S EXCEPT ![uid].posts_created = created, ![uid].posts_sent = sent,
                   ![uid].posts_failed = failed]
    ELSE S

\* update_stats: UPDATE statistics SET posts_created = posts_created + ?,
\* ... WHERE user_id = ?
BumpStats(S, uid, created, sent, failed) ==
    IF uid \in DOMAIN S
    THEN [S EXCEPT ![uid].posts_created = @ + created, ![uid].posts_sent = @ + sent,
                   ![uid].posts_failed = @ + failed]
    ELSE S

HistoryRow(pid, cid, mid, success, error) ==
    [post_id |-> pid, chat_id |-> cid, message_id |-> mid, success |-> success,
     error_text |-> error]

\* An _auth that takes every request for user 1's.
AuthAnyone(token) == 1

\* WebPanel._auth: the user the token maps to, or 0.
Auth(token) == IF token \in Users THEN token ELSE 0

(***************************************************************************)
(* Tasks: one record per running handler.                                  *)
(***************************************************************************)
NoJob == <<0, 0>>

NoDraft ==
    [st |-> "none", tm |-> <<>>, date |-> "", dow |-> <<>>, dom |-> 0, pin |-> 0]

NoData == [hasTm |-> FALSE, tm |-> <<>>, hasActive |-> FALSE, active |-> 0]

\* Database.__init__: pool_size connections; the pool is the queue of the
\* connections no operation holds.
PoolSize == 10

OpenPool(n) == [size |-> n, idle |-> n, state |-> "open"]

Idle ==
    [op |-> "idle", pc |-> "idle", uid |-> 0, pid |-> 0, job |-> NoJob, post |-> NoPost,
     draft |-> NoDraft, data |-> NoData, todo |-> <<>>, total |-> 0, succ |-> 0, cnt |-> 0, mid |-> 0,
     notified |-> 0, button |-> "", existing |-> "", token |-> 0, ret |-> "none",
     pinned |-> "none", markup |-> <<>>, method |-> "none", conn |-> 0, steps |-> <<>>]

TaskIds == 1..MaxTasks

\* A new handler takes the lowest free slot.
Free(t) ==
    /\ t \in DOMAIN tasks
    /\ tasks[t].op = "idle"
    /\ \A u \in DOMAIN tasks : u < t => tasks[u].op # "idle"

Done(r, v) == [r EXCEPT !.pc = "done", !.ret = v]

PreHistory == {"ex_get", "ex_count", "ex_send", "ex_upd", "ex_stats", "ex_hist",
               "ex_fstats", "ex_fhist"}

\* Dispatches that have started, or will start, and have not yet written
\* their History row.
Pending(r) ==
    CASE r.op = "fire" -> IF r.pc \in PreHistory THEN 1 ELSE 0
      [] r.op = "publish" ->
            IF r.pc \in PreHistory \cup {"pub_add"} THEN Len(r.todo)
            ELSE IF r.pc = "done" THEN 0 ELSE Len(r.todo) - 1
      [] OTHER -> 0

RECURSIVE SumPending(_)
SumPending(S) ==
    IF S = {} THEN 0
    ELSE LET t == CHOOSE x \in S : TRUE IN Pending(tasks[t]) + SumPending(S \ {t})

Dispatches == Len(history) + SumPending(DOMAIN tasks)

\* Posts that running save and publish-now handlers will still create.
ToCreate(r) ==
    IF r.op = "web_import" THEN (IF r.pc = "web_imp" THEN 1 ELSE Len(r.todo))
    ELSE IF r.op \in {"save", "publish"} /\ r.pc # "done"
    THEN (IF r.pc \in {"save_add", "pub_add"} THEN Len(r.todo) ELSE Len(r.todo) - 1)
    ELSE 0

RECURSIVE SumToCreate(_)
SumToCreate(S) ==
    IF S = {} THEN 0
    ELSE LET t == CHOOSE x \in S : TRUE IN ToCreate(tasks[t]) + SumToCreate(S \ {t})

Room(k) == nextId - 1 + SumToCreate(DOMAIN tasks) + k <= MaxPosts

(***************************************************************************)
(* _register_job (handlers/posts.py), called by save, toggle and edit.     *)
(***************************************************************************)
\* Where the caller of _register_job goes on when it returns.
\* The loop of _load_jobs goes on to its next post, or ends.
BootNext(r) ==
    IF Len(r.todo) > 1 THEN [r EXCEPT !.todo = Tail(@), !.pc = "boot_get"]
    ELSE Done([r EXCEPT !.todo = <<>>], "loaded")

\* A bootstrap that lets the exception of a registration out.
BootRaiseStops(r) == Done(r, "raised")

\* _load_jobs catches the exception of a registration and logs it.
BootRaise(r) == BootNext(r)

RegReturn(r) ==
    CASE r.op = "save" ->
            IF Len(r.todo) > 1 THEN [r EXCEPT !.todo = Tail(@), !.pc = "save_add"]
            ELSE Done([r EXCEPT !.todo = <<>>], "saved")
      [] r.op = "toggle" -> Done(r, "toggled")
      [] r.op = "boot" -> BootNext(r)
      [] OTHER -> Done(r, "updated")

\* An exception leaving _register_job: on_edit_time and _load_jobs catch
\* it, the other handlers are ended by it.
RegRaise(r) ==
    IF r.op = "edit" THEN Done(r, "format_error")
    ELSE IF r.op = "boot" THEN BootRaise(r)
    ELSE Done(r, "raised")

RegGet(t) ==
    /\ tasks[t].pc = "reg_get"
    /\ LET post == GetPost(tasks[t].pid)
       IN tasks' = [tasks EXCEPT ![t] =
              IF post.post_id = 0 \/ ~IsActive(post) THEN RegReturn(tasks[t])
              ELSE [tasks[t] EXCEPT !.post = post, !.pc = "reg_tz"]]
    /\ UNCHANGED <<pool, posts, nextId, participants, reactions, stats, history, tz, jobs, nextMsg>>

RegTz(t) ==
    /\ tasks[t].pc = "reg_tz"
    /\ LET post == tasks[t].post
           zone == IF post.owner_id \in DOMAIN tz THEN tz[post.owner_id] ELSE DefaultZone
           r == RegisterJobs(jobs, post, zone)
       IN /\ jobs' = r.jobs
          /\ tasks' = [tasks EXCEPT ![t] =
                 IF r.raised THEN RegRaise(tasks[t]) ELSE RegReturn(tasks[t])]
    /\ UNCHANGED <<pool, posts, nextId, participants, reactions, stats, history, tz, nextMsg>>

(***************************************************************************)
(* _save_post                                                              *)
(***************************************************************************)
AddDraft(t, r) ==
    /\ posts' = SetRow(posts, nextId,
                       NewPost(nextId, Head(r.todo), r.uid, r.draft.st, r.draft.tm,
                               r.draft.date, r.draft.dow, r.draft.dom, r.draft.pin))
    /\ nextId' = nextId + 1
    /\ tasks' = [tasks EXCEPT ![t] = [r EXCEPT !.pid = nextId]]
    /\ UNCHANGED <<pool, participants, reactions, stats, history, tz, jobs, nextMsg>>

StartSave(t, u, chats, draft) ==
    /\ Free(t)
    /\ nextId \in PostIds
    /\ AddDraft(t, [Idle EXCEPT !.op = "save", !.pc = "save_stats", !.uid = u,
                                !.draft = draft, !.todo = chats, !.total = Len(chats)])

SaveAdd(t) ==
    /\ tasks[t].pc = "save_add"
    /\ nextId \in PostIds
    /\ AddDraft(t, [tasks[t] EXCEPT !.pc = "save_stats"])

SaveStats(t) ==
    /\ tasks[t].pc = "save_stats"
    /\ stats' = BumpStats(stats, tasks[t].uid, 1, 0, 0)
    /\ tasks' = [tasks EXCEPT ![t].pc = "reg_get"]
    /\ UNCHANGED <<pool, posts, nextId, participants, reactions, history, tz, jobs, nextMsg>>

(***************************************************************************)
(* _load_jobs (bot.py): the bootstrap.  _register_single_job is the same   *)
(* code as _register_job and takes the same two steps.                     *)
(***************************************************************************)
\* get_active_posts: the ids the query selects.
ActiveIds(P) ==
    {p \in DOMAIN P : P[p].post_id # 0 /\ P[p].is_active = 1
                      /\ P[p].schedule_type # "instant"}

\* The query has no ORDER BY: its rows come in some order.
Orders(S) ==
    {q \in [1..Cardinality(S) -> S] : \A i, j \in 1..Cardinality(S) : i # j => q[i] # q[j]}

LoadJobs(t, order) ==
    /\ Free(t)
    /\ order \in Orders(ActiveIds(posts))
    /\ tasks' = [tasks EXCEPT ![t] =
           IF order = <<>> THEN Done([Idle EXCEPT !.op = "boot"], "loaded")
           ELSE [Idle EXCEPT !.op = "boot", !.pc = "boot_get", !.todo = order]]
    /\ UNCHANGED <<pool, posts, nextId, participants, reactions, stats, history, tz, jobs, nextMsg>>

\* get_post of the loop: a post that is gone or inactive by now is passed.
BootGet(t) ==
    /\ tasks[t].pc = "boot_get"
    /\ LET r == tasks[t]
           post == GetPost(Head(r.todo))
       IN tasks' = [tasks EXCEPT ![t] =
              IF post.post_id # 0 /\ IsActive(post)
              THEN [r EXCEPT !.pid = Head(r.todo), !.pc = "reg_get"]
              ELSE BootNext(r)]
    /\ UNCHANGED <<pool, posts, nextId, participants, reactions, stats, history, tz, jobs, nextMsg>>

(***************************************************************************)
(* cb_toggle_post, cb_delete_post, on_edit_time, bulk operations           *)
(***************************************************************************)
StartToggle(t, u, pid) ==
    /\ Free(t)
    /\ LET post == GetPost(pid)
           r == [Idle EXCEPT !.op = "toggle", !.uid = u, !.pid = pid, !.post = post]
       IN tasks' = [tasks EXCEPT ![t] =
              IF post.post_id = 0 THEN Done(r, "not_found")
              ELSE [r EXCEPT !.pc = "tg_upd"]]
    /\ UNCHANGED <<pool, posts, nextId, participants, reactions, stats, history, tz, jobs, nextMsg>>

ToggleUpdate(t) ==
    /\ tasks[t].pc = "tg_upd"
    /\ LET r == tasks[t]
           new_active == ~IsActive(r.post)
       IN /\ posts' = SetActive(posts, r.pid, IF new_active THEN 1 ELSE 0)
          /\ IF new_active
             THEN /\ tasks' = [tasks EXCEPT ![t].pc = "reg_get"]
                  /\ jobs' = jobs
             ELSE /\ tasks' = [tasks EXCEPT ![t] = Done(r, "toggled")]
                  /\ jobs' = RemoveJob(jobs, r.pid)
    /\ UNCHANGED <<pool, nextId, participants, reactions, stats, history, tz, nextMsg>>

\* A delete that also cancels the dispatches of the post that are running.
DeletePostCancelsFire(t, u, pid) ==
    /\ Free(t)
    /\ posts' = DeleteRow(posts, pid)
    /\ participants' = DeleteParticipants(participants, pid)
    /\ jobs' = RemoveJob(jobs, pid)
    /\ tasks' = [x \in DOMAIN tasks |->
           IF x = t THEN Done([Idle EXCEPT !.op = "delete", !.uid = u, !.pid = pid], "deleted")
           ELSE IF tasks[x].op = "fire" /\ tasks[x].pid = pid /\ tasks[x].pc # "done"
                THEN Done(tasks[x], "cancelled")
           ELSE tasks[x]]
    /\ UNCHANGED <<pool, nextId, reactions, stats, history, tz, nextMsg>>

DeletePost(t, u, pid) ==
    /\ Free(t)
    /\ posts' = DeleteRow(posts, pid)
    /\ participants' = DeleteParticipants(participants, pid)
    /\ jobs' = RemoveJob(jobs, pid)
    /\ tasks' = [tasks EXCEPT ![t] =
           Done([Idle EXCEPT !.op = "delete", !.uid = u, !.pid = pid], "deleted")]
    /\ UNCHANGED <<pool, nextId, reactions, stats, history, tz, nextMsg>>

StartEditTime(t, u, pid, time_str) ==
    /\ Free(t)
    /\ posts' = SetTime(posts, pid, <<time_str>>)
    /\ tasks' = [tasks EXCEPT ![t] =
           [Idle EXCEPT !.op = "edit", !.pc = "reg_get", !.uid = u, !.pid = pid]]
    /\ UNCHANGED <<pool, nextId, participants, reactions, stats, history, tz, jobs, nextMsg>>

\* cb_post_toggle_setting: get_post, then the option is flipped (pin here).
StartSetting(t, u, pid) ==
    /\ Free(t)
    /\ LET post == GetPost(pid)
           r == [Idle EXCEPT !.op = "setting", !.uid = u, !.pid = pid, !.post = post]
       IN tasks' = [tasks EXCEPT ![t] =
              IF post.post_id = 0 THEN Done(r, "not_found")
              ELSE [r EXCEPT !.pc = "st_upd"]]
    /\ UNCHANGED <<pool, posts, nextId, participants, reactions, stats, history, tz, jobs, nextMsg>>

SettingUpdate(t) ==
    /\ tasks[t].pc = "st_upd"
    /\ posts' = SetPin(posts, tasks[t].pid, IF tasks[t].post.pin_post # 0 THEN 0 ELSE 1)
    /\ tasks' = [tasks EXCEPT ![t] = Done(tasks[t], "set")]
    /\ UNCHANGED <<pool, nextId, participants, reactions, stats, history, tz, jobs, nextMsg>>

BulkDelete(t, u, filter) ==
    /\ Free(t)
    /\ posts' = DeleteBulk(posts, u, filter)
    /\ jobs' = RemoveAllJobs(jobs)
    /\ tasks' = [tasks EXCEPT ![t] = Done([Idle EXCEPT !.op = "bulk_delete", !.uid = u], "deleted")]
    /\ UNCHANGED <<pool, nextId, participants, reactions, stats, history, tz, nextMsg>>

BulkDisable(t, u) ==
    /\ Free(t)
    /\ posts' = DisableBulk(posts, u)
    /\ jobs' = RemoveAllJobs(jobs)
    /\ tasks' = [tasks EXCEPT ![t] = Done([Idle EXCEPT !.op = "bulk_disable", !.uid = u], "disabled")]
    /\ UNCHANGED <<pool, nextId, participants, reactions, stats, history, tz, nextMsg>>

(***************************************************************************)
(* Web panel (web.py)                                                      *)
(***************************************************************************)
\* The endpoints of the panel.
WebOps == {"web_index", "web_list", "web_get", "web_update", "web_delete",
           "web_export", "web_import", "web_stats"}

\* Every endpoint begins with _auth and answers 401 when it returns 0.
StartWeb(t, op, token, pid) ==
    /\ Free(t)
    /\ LET uid == Auth(token)
           r == [Idle EXCEPT !.op = op, !.uid = uid, !.pid = pid, !.token = token]
       IN tasks' = [tasks EXCEPT ![t] =
              IF uid = 0 THEN Done(r, "401")
              ELSE IF op = "web_index" THEN Done(r, "200")
              ELSE IF op \in {"web_get", "web_update", "web_delete"}
                   THEN [r EXCEPT !.pc = "web_get"]
              ELSE IF op = "web_import" THEN [r EXCEPT !.pc = "web_imp"]
              ELSE [r EXCEPT !.pc = "web_read"]]
    /\ UNCHANGED <<pool, posts, nextId, participants, reactions, stats, history, tz, jobs, nextMsg>>

WebGet(t, data) ==
    /\ tasks[t].pc = "web_get"
    /\ LET r == tasks[t]
           post == GetPost(r.pid)
       IN tasks' = [tasks EXCEPT ![t] =
              IF post.post_id = 0 \/ post.owner_id # r.uid THEN Done(r, "404")
              ELSE IF r.op = "web_get" THEN Done([r EXCEPT !.post = post], "200")
              ELSE IF r.op = "web_delete" THEN [r EXCEPT !.post = post, !.pc = "web_del"]
              ELSE IF data.hasTm \/ data.hasActive
                   THEN [r EXCEPT !.post = post, !.data = data, !.pc = "web_upd"]
                   ELSE Done([r EXCEPT !.post = post], "updated")]
    /\ UNCHANGED <<pool, posts, nextId, participants, reactions, stats, history, tz, jobs, nextMsg>>

\* get_posts, export_posts, get_stats: reads of the store.
WebRead(t) ==
    /\ tasks[t].pc = "web_read"
    /\ tasks' = [tasks EXCEPT ![t] = Done(tasks[t], "200")]
    /\ UNCHANGED <<pool, posts, nextId, participants, reactions, stats, history, tz, jobs, nextMsg>>

\* import_posts: the body and the user's chats are read.
WebImportChats(t, items) ==
    /\ tasks[t].pc = "web_imp"
    /\ LET r == tasks[t]
       IN tasks' = [tasks EXCEPT ![t] =
              IF ChatsOf(r.uid) = <<>> THEN Done(r, "400")
              ELSE IF items = <<>> THEN Done(r, "imported")
              ELSE [r EXCEPT !.todo = items, !.total = Len(items), !.pc = "imp_add"]]
    /\ UNCHANGED <<pool, posts, nextId, participants, reactions, stats, history, tz, jobs, nextMsg>>

\* import_posts: add_post of the next item, into the user's first chat.
WebImportAdd(t) ==
    /\ tasks[t].pc = "imp_add"
    /\ nextId \in PostIds
    /\ LET r == tasks[t]
           d == Head(r.todo)
       IN /\ posts' = SetRow(posts, nextId,
                  NewPost(nextId, ChatsOf(r.uid)[1], r.uid, d.st, d.tm, d.date, d.dow,
                          d.dom, d.pin))
          /\ tasks' = [tasks EXCEPT ![t] =
                 IF Len(r.todo) > 1 THEN [r EXCEPT !.pid = nextId, !.todo = Tail(@)]
                 ELSE Done([r EXCEPT !.pid = nextId, !.todo = <<>>], "imported")]
    /\ nextId' = nextId + 1
    /\ UNCHANGED <<pool, participants, reactions, stats, history, tz, jobs, nextMsg>>

\* on_import_file: the import through the bot.  After the download of the
\* file it is the code of import_posts: get_chats, then add_post per item.
StartBotImport(t, u) ==
    /\ Free(t)
    /\ tasks' = [tasks EXCEPT ![t] =
           [Idle EXCEPT !.op = "bot_import", !.pc = "web_imp", !.uid = u]]
    /\ UNCHANGED <<pool, posts, nextId, participants, reactions, stats, history, tz, jobs, nextMsg>>

\* cb_duplicate_post, duplicate_post: get_post of the original.
StartDuplicate(t, u, pid) ==
    /\ Free(t)
    /\ LET post == GetPost(pid)
           r == [Idle EXCEPT !.op = "duplicate", !.uid = u, !.post = post]
       IN tasks' = [tasks EXCEPT ![t] =
              IF post.post_id = 0 THEN Done(r, "error") ELSE [r EXCEPT !.pc = "dup_add"]]
    /\ UNCHANGED <<pool, posts, nextId, participants, reactions, stats, history, tz, jobs, nextMsg>>

\* duplicate_post: add_post of the copy, for the owner of the original.
DuplicateAdd(t) ==
    /\ tasks[t].pc = "dup_add"
    /\ nextId \in DOMAIN posts
    /\ LET o == tasks[t].post
       IN posts' = SetRow(posts, nextId,
              NewPost(nextId, o.chat_id, o.owner_id, o.schedule_type, o.scheduled_time,
                      o.scheduled_date, o.days_of_week, o.day_of_month, o.pin_post))
    /\ nextId' = nextId + 1
    /\ tasks' = [tasks EXCEPT ![t] = Done([tasks[t] EXCEPT !.pid = nextId], "copied")]
    /\ UNCHANGED <<pool, participants, reactions, stats, history, tz, jobs, nextMsg>>

WebUpdate(t) ==
    /\ tasks[t].pc = "web_upd"
    /\ LET r == tasks[t]
           P1 == IF r.data.hasTm THEN SetTime(posts, r.pid, r.data.tm) ELSE posts
       IN posts' = IF r.data.hasActive THEN SetActive(P1, r.pid, r.data.active) ELSE P1
    /\ tasks' = [tasks EXCEPT ![t] = Done(tasks[t], "updated")]
    /\ UNCHANGED <<pool, nextId, participants, reactions, stats, history, tz, jobs, nextMsg>>

WebDelete(t) ==
    /\ tasks[t].pc = "web_del"
    /\ posts' = DeleteRow(posts, tasks[t].pid)
    /\ participants' = DeleteParticipants(participants, tasks[t].pid)
    /\ tasks' = [tasks EXCEPT ![t] = Done(tasks[t], "deleted")]
    /\ UNCHANGED <<pool, nextId, reactions, stats, history, tz, jobs, nextMsg>>

(***************************************************************************)
(* _execute_post: the Dispatcher.  It is run by a fired trigger and, for   *)
(* every selected chat, by _publish_now.                                   *)
(***************************************************************************)
Status(succ, total) ==
    IF succ = total THEN "published" ELSE IF succ > 0 THEN "partial" ELSE "error"

\* Where the caller of _execute_post goes on with its result.
\* A loop over the selected chats that gives up at the first chat whose
\* dispatch did not succeed.
ExecReturnStopsAtFailure(r, sent) ==
    IF r.op = "publish"
    THEN LET n == IF sent THEN r.succ + 1 ELSE r.succ
         IN IF Len(r.todo) > 1 /\ sent
            THEN [r EXCEPT !.succ = n, !.todo = Tail(@), !.pc = "pub_add"]
            ELSE Done([r EXCEPT !.succ = n, !.todo = <<>>], Status(n, r.total))
    ELSE Done(r, IF sent THEN "true" ELSE "false")

ExecReturn(r, sent) ==
    IF r.op = "publish"
    THEN LET n == IF sent THEN r.succ + 1 ELSE r.succ
         IN IF Len(r.todo) > 1
            THEN [r EXCEPT !.succ = n, !.todo = Tail(@), !.pc = "pub_add"]
            ELSE Done([r EXCEPT !.succ = n, !.todo = <<>>], Status(n, r.total))
    ELSE Done(r, IF sent THEN "true" ELSE "false")

\* A scheduler that drops every job it has run, recurring or not.
FireDropsJob(t, k) ==
    /\ Free(t)
    /\ k \in DOMAIN jobs
    /\ \A u \in DOMAIN tasks : ~(tasks[u].op = "fire" /\ tasks[u].job = k /\ tasks[u].pc # "done")
    /\ jobs' = Without(jobs, {k})
    /\ tasks' = [tasks EXCEPT ![t] =
           [Idle EXCEPT !.op = "fire", !.pc = "ex_get", !.pid = k[1], !.job = k]]
    /\ UNCHANGED <<pool, posts, nextId, participants, reactions, stats, history, tz, nextMsg>>

\* The trigger of job k is due: the scheduler starts execute() for it.  A
\* date trigger has no further run and leaves the registry; a job whose
\* previous run has not finished is not started again.
Fire(t, k) ==
    /\ Free(t)
    /\ k \in DOMAIN jobs
    /\ \A u \in DOMAIN tasks : ~(tasks[u].op = "fire" /\ tasks[u].job = k /\ tasks[u].pc # "done")
    /\ jobs' = IF jobs[k].kind = "date" THEN Without(jobs, {k}) ELSE jobs
    /\ tasks' = [tasks EXCEPT ![t] =
           [Idle EXCEPT !.op = "fire", !.pc = "ex_get", !.pid = k[1], !.job = k]]
    /\ UNCHANGED <<pool, posts, nextId, participants, reactions, stats, history, tz, nextMsg>>

\* A dispatch that goes on without looking at what get_post returned.
ExecGetUnchecked(t) ==
    /\ tasks[t].pc = "ex_get"
    /\ tasks' = [tasks EXCEPT ![t].post = GetPost(tasks[t].pid), ![t].pc = "ex_count"]
    /\ UNCHANGED <<pool, posts, nextId, participants, reactions, stats, history, tz, jobs, nextMsg>>

ExecGet(t) ==
    /\ tasks[t].pc = "ex_get"
    /\ LET post == GetPost(tasks[t].pid)
       IN tasks' = [tasks EXCEPT ![t] =
              IF post.post_id = 0 THEN ExecReturn(tasks[t], FALSE)
              ELSE [tasks[t] EXCEPT !.post = post, !.pc = "ex_count"]]
    /\ UNCHANGED <<pool, posts, nextId, participants, reactions, stats, history, tz, jobs, nextMsg>>

ExecCount(t) ==
    /\ tasks[t].pc = "ex_count"
    /\ tasks' = [tasks EXCEPT ![t].cnt = CountParticipants(tasks[t].post.post_id),
                              ![t].pc = "ex_send"]
    /\ UNCHANGED <<pool, posts, nextId, participants, reactions, stats, history, tz, jobs, nextMsg>>

\* bot.send_message / send_photo / send_video / send_document
ExecSend(t, ok) ==
    /\ tasks[t].pc = "ex_send"
    /\ IF ok
       THEN /\ tasks' = [tasks EXCEPT ![t].mid = nextMsg, ![t].pc = "ex_upd"]
            /\ nextMsg' = nextMsg + 1
       ELSE /\ tasks' = [tasks EXCEPT ![t].pc = "ex_fstats"]
            /\ nextMsg' = nextMsg
    /\ UNCHANGED <<pool, posts, nextId, participants, reactions, stats, history, tz, jobs>>

ExecUpdate(t) ==
    /\ tasks[t].pc = "ex_upd"
    /\ posts' = SetSent(posts, tasks[t].pid, tasks[t].mid,
                        tasks[t].post.execution_count + 1, 1)
    /\ tasks' = [tasks EXCEPT ![t].pc = "ex_stats"]
    /\ UNCHANGED <<pool, nextId, participants, reactions, stats, history, tz, jobs, nextMsg>>

ExecStats(t) ==
    /\ tasks[t].pc = "ex_stats"
    /\ stats' = BumpStats(stats, tasks[t].post.owner_id, 0, 1, 0)
    /\ tasks' = [tasks EXCEPT ![t].pc = "ex_hist"]
    /\ UNCHANGED <<pool, posts, nextId, participants, reactions, history, tz, jobs, nextMsg>>

AfterPinKeepsActive(r) == ExecReturn(r, TRUE)

\* After the success bookkeeping: pin, then deactivate a once post.
AfterPin(r) ==
    IF r.post.schedule_type = "once" THEN [r EXCEPT !.pc = "ex_deact"]
    ELSE ExecReturn(r, TRUE)

ExecHistory(t) ==
    /\ tasks[t].pc = "ex_hist"
    /\ LET r == tasks[t]
       IN /\ history' = Append(history,
                 HistoryRow(r.pid, r.post.chat_id, r.mid, 1, ""))
          /\ tasks' = [tasks EXCEPT ![t] =
                 IF r.post.pin_post # 0 THEN [r EXCEPT !.pc = "ex_pin"] ELSE AfterPin(r)]
    /\ UNCHANGED <<pool, posts, nextId, participants, reactions, stats, tz, jobs, nextMsg>>

\* bot.pin_chat_message: its failure is swallowed.
ExecPin(t) ==
    /\ tasks[t].pc = "ex_pin"
    /\ tasks' = [tasks EXCEPT ![t] = AfterPin(tasks[t])]
    /\ UNCHANGED <<pool, posts, nextId, participants, reactions, stats, history, tz, jobs, nextMsg>>

ExecDeactivate(t) ==
    /\ tasks[t].pc = "ex_deact"
    /\ posts' = SetActive(posts, tasks[t].pid, 0)
    /\ tasks' = [tasks EXCEPT ![t] = ExecReturn(tasks[t], TRUE)]
    /\ UNCHANGED <<pool, nextId, participants, reactions, stats, history, tz, jobs, nextMsg>>

ExecFailStats(t) ==
    /\ tasks[t].pc = "ex_fstats"
    /\ stats' = BumpStats(stats, tasks[t].post.owner_id, 0, 0, 1)
    /\ tasks' = [tasks EXCEPT ![t].pc = "ex_fhist"]
    /\ UNCHANGED <<pool, posts, nextId, participants, reactions, history, tz, jobs, nextMsg>>

ExecFailHistory(t) ==
    /\ tasks[t].pc = "ex_fhist"
    /\ history' = Append(history,
           HistoryRow(tasks[t].pid, tasks[t].post.chat_id, 0, 0, "error"))
    /\ tasks' = [tasks EXCEPT ![t].pc = "ex_notify"]
    /\ UNCHANGED <<pool, posts, nextId, participants, reactions, stats, tz, jobs, nextMsg>>

\* notify_error letting the failure of its own send out.
ExecNotifyRaises(t, ok) ==
    /\ tasks[t].pc = "ex_notify"
    /\ tasks' = [tasks EXCEPT ![t] =
           IF ok THEN ExecReturn([tasks[t] EXCEPT !.notified = 1], FALSE)
           ELSE Done(tasks[t], "raised")]
    /\ UNCHANGED <<pool, posts, nextId, participants, reactions, stats, history, tz, jobs, nextMsg>>

\* notify_error: a direct message to the owner (ok: it was delivered), the
\* failure of the send swallowed.
ExecNotify(t, ok) ==
    /\ tasks[t].pc = "ex_notify"
    /\ tasks' = [tasks EXCEPT ![t] =
           ExecReturn([tasks[t] EXCEPT !.notified = IF ok THEN 1 ELSE 0], FALSE)]
    /\ UNCHANGED <<pool, posts, nextId, participants, reactions, stats, history, tz, jobs, nextMsg>>

(***************************************************************************)
(* _publish_now                                                            *)
(***************************************************************************)
StartPublish(t, u, chats, pin) ==
    /\ Free(t)
    /\ nextId \in DOMAIN posts
    /\ AddDraft(t, [Idle EXCEPT !.op = "publish", !.pc = "ex_get", !.uid = u,
                                !.draft = [NoDraft EXCEPT !.st = "instant", !.pin = pin],
                                !.todo = chats, !.total = Len(chats)])

PublishAdd(t) ==
    /\ tasks[t].pc = "pub_add"
    /\ nextId \in DOMAIN posts
    /\ AddDraft(t, [tasks[t] EXCEPT !.pc = "ex_get"])

(***************************************************************************)
(* cb_participate, cb_set_tz                                               *)
(***************************************************************************)
Participate(t, u, pid) ==
    /\ Free(t)
    /\ LET a == AddParticipant(participants, pid, u)
       IN /\ participants' = a.rows
          /\ tasks' = [tasks EXCEPT ![t] =
                 [Idle EXCEPT !.op = "participate", !.pc = "pt_count", !.uid = u,
                              !.pid = pid, !.succ = IF a.added THEN 1 ELSE 0]]
    /\ UNCHANGED <<pool, posts, nextId, reactions, stats, history, tz, jobs, nextMsg>>

\* count_participants, then the answer; the refresh of the buttons that
\* follows only reads the store.
PartCount(t) ==
    /\ tasks[t].pc = "pt_count"
    /\ tasks' = [tasks EXCEPT ![t] =
           Done([tasks[t] EXCEPT !.cnt = CountParticipants(tasks[t].pid)],
                IF tasks[t].succ = 1 THEN "joined" ELSE "already")]
    /\ UNCHANGED <<pool, posts, nextId, participants, reactions, stats, history, tz, jobs, nextMsg>>

(***************************************************************************)
(* cb_react                                                                *)
(***************************************************************************)
\* get_user_reaction returned e; the branch is chosen from it.
ReactGet(t, u, pid, button_id, e) ==
    /\ Free(t)
    /\ e \in UserReactions(reactions, pid, u)
    /\ tasks' = [tasks EXCEPT ![t] =
           [Idle EXCEPT !.op = "react", !.uid = u, !.pid = pid, !.button = button_id,
                        !.existing = e,
                        !.pc = IF e = button_id THEN "rc_remove"
                               ELSE IF e # "" THEN "rc_swap" ELSE "rc_new"]]
    /\ UNCHANGED <<pool, posts, nextId, participants, reactions, stats, history, tz, jobs, nextMsg>>

\* remove_reaction of the existing vote: the toggle off, or the first half
\* of a change of vote.
ReactRemove(t) ==
    /\ tasks[t].pc \in {"rc_remove", "rc_swap"}
    /\ reactions' = RemoveReaction(reactions, tasks[t].pid, tasks[t].existing, tasks[t].uid)
    /\ tasks' = [tasks EXCEPT ![t] =
           IF tasks[t].pc = "rc_remove" THEN Done(tasks[t], "removed")
           ELSE [tasks[t] EXCEPT !.pc = "rc_add"]]
    /\ UNCHANGED <<pool, posts, nextId, participants, stats, history, tz, jobs, nextMsg>>

\* add_reaction of the new vote; its result is not looked at.
ReactAdd(t) ==
    /\ tasks[t].pc \in {"rc_add", "rc_new"}
    /\ reactions' = AddReaction(reactions, tasks[t].pid, tasks[t].button, tasks[t].uid)
    /\ tasks' = [tasks EXCEPT ![t] =
           IF tasks[t].pc = "rc_add" THEN Done(tasks[t], "changed")
           ELSE [tasks[t] EXCEPT !.pc = "rc_count"]]
    /\ UNCHANGED <<pool, posts, nextId, participants, stats, history, tz, jobs, nextMsg>>

\* count_reactions for the answer to a new vote.
ReactCount(t) ==
    /\ tasks[t].pc = "rc_count"
    /\ tasks' = [tasks EXCEPT ![t] = Done(tasks[t], "added")]
    /\ UNCHANGED <<pool, posts, nextId, participants, reactions, stats, history, tz, jobs, nextMsg>>

SetTz(t, u, zone) ==
    /\ Free(t)
    /\ tz' = [tz EXCEPT ![u] = zone]
    /\ tasks' = [tasks EXCEPT ![t] = Done([Idle EXCEPT !.op = "set_tz", !.uid = u], "set")]
    /\ UNCHANGED <<pool, posts, nextId, participants, reactions, stats, history, jobs, nextMsg>>

\* The handler has returned: its slot is free again.
Return(t) ==
    /\ tasks[t].pc = "done"
    /\ tasks' = [tasks EXCEPT ![t] = Idle]
    /\ UNCHANGED <<pool, posts, nextId, participants, reactions, stats, history, tz, jobs, nextMsg>>

(***************************************************************************)
(* Specifications                                                          *)
(***************************************************************************)
Init ==
    /\ posts = [p \in PostIds |-> NoPost]
    /\ nextId = 1
    /\ participants = {}
    /\ reactions = {}
    /\ stats = [u \in Users |-> [posts_created |-> 0, posts_sent |-> 0, posts_failed |-> 0]]
    /\ history = <<>>
    /\ tz = [u \in Users |-> DefaultZone]
    /\ jobs = <<>>
    /\ nextMsg = 1
    /\ pool = OpenPool(PoolSize)
    /\ tasks = [t \in TaskIds |-> Idle]

ValidDate == "01.12.2026"

\* Drafts the conversational flow builds: every schedule type with the
\* fields its pickers set.
Draft(st, tm) ==
    [st |-> st, tm |-> tm,
     date |-> IF st = "once" THEN ValidDate ELSE "",
     dow |-> IF st = "weekly" THEN <<1, 3>> ELSE <<>>,
     dom |-> IF st = "monthly" THEN 15 ELSE 0,
     pin |-> 0]

ScheduleTypes == {"once", "daily", "weekly", "monthly"}

ShortTimes == {<<"09:00">>, <<"09:00", "18:00">>}

ChatLists == {<<100>>}

WebData ==
    {[hasTm |-> FALSE, tm |-> <<>>, hasActive |-> TRUE, active |-> a] : a \in {0, 1}}
    \cup {[hasTm |-> TRUE, tm |-> <<"18:00">>, hasActive |-> FALSE, active |-> 0]}

(***************************************************************************)
(* Spec: the handlers of the bot and of the web panel on one post.         *)
(***************************************************************************)
Authors == {1}

RegSteps(t) == RegGet(t) \/ RegTz(t)

ExecSteps(t) ==
    \/ ExecGet(t)
    \/ ExecCount(t)
    \/ \E ok \in BOOLEAN : ExecSend(t, ok)
    \/ ExecUpdate(t)
    \/ ExecStats(t)
    \/ ExecHistory(t)
    \/ ExecPin(t)
    \/ ExecDeactivate(t)
    \/ ExecFailStats(t)
    \/ ExecFailHistory(t)
    \/ \E ok \in BOOLEAN : ExecNotify(t, ok)

ToggleSteps(t) ==
    \/ \E u \in Users, pid \in PostIds : StartToggle(t, u, pid)
    \/ ToggleUpdate(t)

\* Bodies of an import: one post, scheduled daily or with the defaults.
ImportItems ==
    {<<Draft("daily", <<"09:00">>)>>, <<[NoDraft EXCEPT !.st = "instant"]>>}

WebSteps(t) ==
    \/ \E token \in Users \cup {BadToken, NoToken}, pid \in PostIds, op \in WebOps :
           /\ op = "web_import" => Room(1)
           /\ StartWeb(t, op, token, pid)
    \/ \E data \in WebData : WebGet(t, data)
    \/ WebUpdate(t)
    \/ WebDelete(t)
    \/ WebRead(t)
    \/ \E items \in ImportItems : WebImportChats(t, items)
    \/ WebImportAdd(t)

FireJob(t) == \E k \in DOMAIN jobs : Dispatches < MaxFires /\ Fire(t, k)

Next ==
    \E t \in TaskIds :
        \/ \E u \in Authors, chats \in ChatLists, st \in ScheduleTypes, tm \in ShortTimes :
               Room(Len(chats)) /\ StartSave(t, u, chats, Draft(st, tm))
        \/ SaveStats(t)
        \/ RegSteps(t)
        \/ \E u \in Authors, chats \in ChatLists, pin \in {0, 1} :
               /\ Room(Len(chats))
               /\ Dispatches + Len(chats) <= MaxFires
               /\ StartPublish(t, u, chats, pin)
        \/ ToggleSteps(t)
        \/ \E u \in Users, pid \in PostIds : DeletePost(t, u, pid)
        \/ \E u \in Users, pid \in PostIds : StartEditTime(t, u, pid, "18:00")
        \/ \E u \in Users, pid \in PostIds : StartSetting(t, u, pid)
        \/ SettingUpdate(t)
        \/ \E u \in Users : BulkDisable(t, u)
        \/ \E u \in Users, f \in {"all", "active", "inactive"} : BulkDelete(t, u, f)
        \/ WebSteps(t)
        \/ FireJob(t)
        \/ ExecSteps(t)
        \/ Return(t)

Spec == Init /\ [][Next]_vars

(***************************************************************************)
(* SpecDispatch: fires of one saved post, with the owner toggling and      *)
(* deleting it meanwhile.                                                  *)
(***************************************************************************)
SavedPost(st, tm, pin) ==
    NewPost(1, 100, 1, st, tm, Draft(st, tm).date, Draft(st, tm).dow, Draft(st, tm).dom, pin)

InitDispatch ==
    \E st \in {"once", "daily"}, tm \in ShortTimes, pin \in {0, 1} :
        /\ posts = [p \in PostIds |-> IF p = 1 THEN SavedPost(st, tm, pin) ELSE NoPost]
        /\ nextId = 2
        /\ participants = {}
        /\ reactions = {}
        /\ stats = [u \in Users |->
               [posts_created |-> IF u = 1 THEN 1 ELSE 0, posts_sent |-> 0, posts_failed |-> 0]]
        /\ history = <<>>
        /\ tz = [u \in Users |-> DefaultZone]
        /\ jobs = RegisterJobs(<<>>, SavedPost(st, tm, pin), DefaultZone).jobs
        /\ nextMsg = 1
        /\ pool = OpenPool(PoolSize)
        /\ tasks = [t \in TaskIds |-> Idle]

NextDispatch ==
    \E t \in TaskIds :
        \/ FireJob(t)
        \/ ExecSteps(t)
        \/ ToggleSteps(t)
        \/ RegSteps(t)
        \/ \E pid \in PostIds : DeletePost(t, 1, pid)
        \/ Return(t)

SpecDispatch == InitDispatch /\ [][NextDispatch]_vars

(***************************************************************************)
(* SpecReg: the registrations of one post, one handler at a time, with     *)
(* time lists as long as the manual time input allows.                     *)
(***************************************************************************)
\* n distinct times, as on_time_input joins them.
FirstTimes(n) == [i \in 1..n |-> Clock[i]]

TimeLists == {FirstTimes(n) : n \in {1, 2, RemoveLimit} \cup (RemoveLimit + 1)..MaxTimes}

RegTasks == {1}

InitReg ==
    /\ posts = [p \in PostIds |-> NoPost]
    /\ nextId = 1
    /\ participants = {}
    /\ reactions = {}
    /\ stats = [u \in Users |-> [posts_created |-> 0, posts_sent |-> 0, posts_failed |-> 0]]
    /\ history = <<>>
    /\ tz = [u \in Users |-> DefaultZone]
    /\ jobs = <<>>
    /\ nextMsg = 1
    /\ pool = OpenPool(PoolSize)
    /\ tasks = [t \in RegTasks |-> Idle]

NextReg ==
    \E t \in RegTasks :
        \/ \E st \in ScheduleTypes, tm \in TimeLists :
               nextId = 1 /\ StartSave(t, 1, <<100>>, Draft(st, tm))
        \/ SaveStats(t)
        \/ RegSteps(t)
        \/ StartToggle(t, 1, 1)
        \/ ToggleUpdate(t)
        \/ StartEditTime(t, 1, 1, "18:00")
        \/ \E token \in {1, BadToken, NoToken}, op \in WebOps :
               /\ op = "web_import" => nextId = 1
               /\ StartWeb(t, op, token, 1)
        \/ \E tm \in TimeLists :
               WebGet(t, [hasTm |-> TRUE, tm |-> tm, hasActive |-> FALSE, active |-> 0])
        \/ WebUpdate(t)
        \/ WebDelete(t)
        \/ WebRead(t)
        \/ \E items \in ImportItems : WebImportChats(t, items)
        \/ WebImportAdd(t)
        \/ DeletePost(t, 1, 1)
        \/ \E u \in Users : Participate(t, u, 1)
        \/ PartCount(t)
        \/ \E zone \in Zones : SetTz(t, 1, zone)
        \/ Return(t)

SpecReg == InitReg /\ [][NextReg]_vars

(***************************************************************************)
(* SpecConc: overlapping dispatches of one saved post with two fire times, *)
(* and its owner deleting it meanwhile.                                    *)
(***************************************************************************)
ConcTasks == 1..(MaxTasks + 1)

InitConc ==
    \E st \in {"once", "daily"}, pin \in {0, 1} :
        LET post == SavedPost(st, <<"09:00", "18:00">>, pin)
        IN /\ posts = [p \in PostIds |-> IF p = 1 THEN post ELSE NoPost]
           /\ nextId = 2
           /\ participants = {}
           /\ reactions = {}
           /\ stats = [u \in Users |->
                  [posts_created |-> IF u = 1 THEN 1 ELSE 0, posts_sent |-> 0,
                   posts_failed |-> 0]]
           /\ history = <<>>
           /\ tz = [u \in Users |-> DefaultZone]
           /\ jobs = RegisterJobs(<<>>, post, DefaultZone).jobs
           /\ nextMsg = 1
           /\ pool = OpenPool(PoolSize)
           /\ tasks = [t \in ConcTasks |-> Idle]

NextConc ==
    \E t \in ConcTasks :
        \/ FireJob(t)
        \/ ExecSteps(t)
        \/ DeletePost(t, 1, 1)
        \/ Return(t)

SpecConc == InitConc /\ [][NextConc]_vars

(***************************************************************************)
(* SpecEngage: overlapping reaction callbacks of two users on one          *)
(* published post.  SpecJoin: their overlapping participate callbacks.     *)
(***************************************************************************)
EngageTasks == 1..(MaxTasks + 1)

Buttons == {"like", "dislike"}

InitEngage ==
    LET post == SavedPost("daily", <<"09:00">>, 0)
    IN /\ posts = [p \in PostIds |-> IF p = 1 THEN post ELSE NoPost]
       /\ nextId = 2
       /\ participants = {}
       /\ reactions = {}
       /\ stats = [u \in Users |->
              [posts_created |-> IF u = 1 THEN 1 ELSE 0, posts_sent |-> 0,
               posts_failed |-> 0]]
       /\ history = <<>>
       /\ tz = [u \in Users |-> DefaultZone]
       /\ jobs = RegisterJobs(<<>>, post, DefaultZone).jobs
       /\ nextMsg = 1
       /\ pool = OpenPool(PoolSize)
       /\ tasks = [t \in EngageTasks |-> Idle]

NextEngage ==
    \E t \in EngageTasks :
        \/ \E u \in Users, b \in Buttons, e \in Buttons \cup {""} : ReactGet(t, u, 1, b, e)
        \/ ReactRemove(t)
        \/ ReactAdd(t)
        \/ ReactCount(t)
        \/ Return(t)

SpecEngage == InitEngage /\ [][NextEngage]_vars

NextJoin ==
    \E t \in EngageTasks :
        \/ \E u \in Users : Participate(t, u, 1)
        \/ PartCount(t)
        \/ Return(t)

SpecJoin == InitEngage /\ [][NextJoin]_vars

(***************************************************************************)
(* SpecCancel: the owner deletes the post or toggles it while its fires    *)
(* are in flight.                                                          *)
(***************************************************************************)
\* A pinned once post or a daily post, with one time, registered.
InitCancel ==
    \E st \in {"once", "daily"} :
        LET post == SavedPost(st, <<"09:00">>, IF st = "once" THEN 1 ELSE 0)
        IN /\ posts = [p \in PostIds |-> IF p = 1 THEN post ELSE NoPost]
           /\ nextId = 2
           /\ participants = {}
           /\ reactions = {}
           /\ stats = [u \in Users |->
                  [posts_created |-> IF u = 1 THEN 1 ELSE 0, posts_sent |-> 0,
                   posts_failed |-> 0]]
           /\ history = <<>>
           /\ tz = [u \in Users |-> DefaultZone]
           /\ jobs = RegisterJobs(<<>>, post, DefaultZone).jobs
           /\ nextMsg = 1
           /\ pool = OpenPool(PoolSize)
           /\ tasks = [t \in EngageTasks |-> Idle]

NextCancel ==
    \E t \in EngageTasks :
        \/ FireJob(t)
        \/ ExecSteps(t)
        \/ DeletePost(t, 1, 1)
        \/ StartToggle(t, 1, 1)
        \/ ToggleUpdate(t)
        \/ RegSteps(t)
        \/ Return(t)

SpecCancel == InitCancel /\ [][NextCancel]_vars

(***************************************************************************)
(* SpecRace: overlapping callbacks of the owner on one registered post:    *)
(* toggles, an edit of its time and its delete.                            *)
(***************************************************************************)
NextRace ==
    \E t \in EngageTasks :
        \/ StartToggle(t, 1, 1)
        \/ ToggleUpdate(t)
        \/ StartEditTime(t, 1, 1, "18:00")
        \/ RegSteps(t)
        \/ DeletePost(t, 1, 1)
        \/ Return(t)

SpecRace == InitEngage /\ [][NextRace]_vars

(***************************************************************************)
(* SpecBoot: the bootstrap of a process whose store holds posts of every   *)
(* kind, on the empty registry of the new process.                         *)
(***************************************************************************)
BootIds == 1..(MaxPosts + 1)

\* Rows the handlers can have left in the store.  A time string that does
\* not parse gets there through the web PUT, which stores any string.
StoredPosts(p) ==
    {NoPost}
    \cup {[NewPost(p, 100, 1, st, tm, Draft(st, tm).date, Draft(st, tm).dow,
                   Draft(st, tm).dom, 0) EXCEPT !.is_active = a] :
              st \in {"once", "weekly"},
              tm \in {<<"09:00", "18:00">>, FirstTimes(MaxTimes)},
              a \in {0, 1}}
    \cup {NewPost(p, 100, 1, "daily", <<"09:00", "9h">>, "", <<>>, 0, 0),
          NewPost(p, 100, 1, "weekly", <<"09:00">>, "", <<>>, 0, 0),
          NewPost(p, 100, 1, "instant", <<>>, "", <<>>, 0, 0)}

InitBoot ==
    /\ posts \in [BootIds -> UNION {StoredPosts(p) : p \in BootIds}]
    /\ \A p \in BootIds : posts[p] \in StoredPosts(p)
    /\ nextId = MaxPosts + 2
    /\ participants = {}
    /\ reactions = {}
    /\ stats = [u \in Users |-> [posts_created |-> 0, posts_sent |-> 0, posts_failed |-> 0]]
    /\ history = <<>>
    /\ tz \in [Users -> Zones]
    /\ tz[2] = DefaultZone
    /\ jobs = <<>>
    /\ nextMsg = 1
    /\ pool = OpenPool(PoolSize)
    /\ tasks = <<Idle>>

NextBoot ==
    \/ \E order \in UNION {Orders(S) : S \in SUBSET BootIds} : LoadJobs(1, order)
    \/ BootGet(1)
    \/ RegSteps(1)

SpecBoot == InitBoot /\ [][NextBoot]_vars

(***************************************************************************)
(* SpecBulk: the bulk operations and the single delete on a store that    *)
(* holds posts of both users, active ones registered as the bootstrap      *)
(* leaves them, with a reader joining the posts.                           *)
(***************************************************************************)
\* The registry after every active post of S has been registered.
RECURSIVE RegisterAll(_, _, _)
RegisterAll(J, P, S) ==
    IF S = {} THEN J
    ELSE LET p == CHOOSE x \in S : TRUE
             J1 == IF IsActive(P[p]) THEN RegisterJobs(J, P[p], DefaultZone).jobs ELSE J
         IN RegisterAll(J1, P, S \ {p})

OwnedPosts(p) ==
    {[NewPost(p, 100, o, st, <<"09:00">>, Draft(st, <<"09:00">>).date, <<>>, 0, 0)
          EXCEPT !.is_active = a] :
         o \in Users, st \in {"once", "daily"}, a \in {0, 1}}

InitBulk ==
    /\ posts \in [BootIds -> UNION {OwnedPosts(p) : p \in BootIds}]
    /\ \A p \in BootIds : posts[p] \in OwnedPosts(p)
    /\ nextId = MaxPosts + 2
    /\ participants = {}
    /\ reactions = {}
    /\ stats = [u \in Users |-> [posts_created |-> 0, posts_sent |-> 0, posts_failed |-> 0]]
    /\ history = <<>>
    /\ tz = [u \in Users |-> DefaultZone]
    /\ jobs = RegisterAll(<<>>, posts, BootIds)
    /\ nextMsg = 1
    /\ pool = OpenPool(PoolSize)
    /\ tasks = <<Idle>>

NextBulk ==
    \/ \E u \in Users : BulkDisable(1, u)
    \/ \E u \in Users, f \in {"all", "active", "inactive"} : BulkDelete(1, u, f)
    \/ \E pid \in BootIds : Exists(pid) /\ DeletePost(1, posts[pid].owner_id, pid)
    \/ \E pid \in BootIds : Exists(pid) /\ Participate(1, 2, pid)
    \/ PartCount(1)
    \/ Return(1)

SpecBulk == InitBulk /\ [][NextBulk]_vars

(***************************************************************************)
(* SpecCreate: the ways a post gets into the store without the save flow:  *)
(* the two imports and the duplicate, with toggles of the posts they made. *)
(***************************************************************************)
InitCreate ==
    /\ posts = [p \in BootIds |-> NoPost]
    /\ nextId = 1
    /\ participants = {}
    /\ reactions = {}
    /\ stats = [u \in Users |-> [posts_created |-> 0, posts_sent |-> 0, posts_failed |-> 0]]
    /\ history = <<>>
    /\ tz = [u \in Users |-> DefaultZone]
    /\ jobs = <<>>
    /\ nextMsg = 1
    /\ pool = OpenPool(PoolSize)
    /\ tasks = [t \in TaskIds |-> Idle]

NextCreate ==
    \E t \in TaskIds :
        \/ nextId = 1 /\ StartWeb(t, "web_import", 1, 1)
        \/ \E u \in Users : nextId = 1 /\ StartBotImport(t, u)
        \/ \E items \in ImportItems : WebImportChats(t, items)
        \/ WebImportAdd(t)
        \/ \E u \in Users, pid \in BootIds : StartDuplicate(t, u, pid)
        \/ DuplicateAdd(t)
        \/ \E pid \in BootIds : StartToggle(t, 1, pid)
        \/ ToggleUpdate(t)
        \/ RegSteps(t)
        \/ Return(t)

SpecCreate == InitCreate /\ [][NextCreate]_vars

(***************************************************************************)
(* SpecMalformed: the registrations of the front-end (save, toggle, edit   *)
(* of the time) on posts whose recurrence fields are inconsistent.         *)
(***************************************************************************)
\* Drafts that lack the field their schedule type needs: the save flow
\* reads every field with data.get and checks none.
LackingDrafts ==
    {[Draft(st, tm) EXCEPT !.date = "", !.dow = <<>>, !.dom = 0] :
         st \in {"once", "weekly", "monthly"}, tm \in ShortTimes}

\* Rows with a time list that does not parse: the web PUT and the imports
\* store any string.  The row is disabled, as after a toggle.
UnparsableRows ==
    {[NewPost(1, 100, 1, st, tm, Draft(st, tm).date, Draft(st, tm).dow,
              Draft(st, tm).dom, 0) EXCEPT !.is_active = 0] :
         st \in ScheduleTypes, tm \in {<<"09:00", "9h">>, <<"9h">>}}

InitMalformed ==
    /\ posts \in [PostIds -> {NoPost} \cup UnparsableRows]
    /\ \A p \in PostIds : p # 1 => posts[p] = NoPost
    /\ nextId = IF posts[1] = NoPost THEN 1 ELSE 2
    /\ participants = {}
    /\ reactions = {}
    /\ stats = [u \in Users |-> [posts_created |-> 0, posts_sent |-> 0, posts_failed |-> 0]]
    /\ history = <<>>
    /\ tz = [u \in Users |-> DefaultZone]
    /\ jobs = <<>>
    /\ nextMsg = 1
    /\ pool = OpenPool(PoolSize)
    /\ tasks = [t \in TaskIds |-> Idle]

NextMalformed ==
    \E t \in TaskIds :
        \/ \E draft \in LackingDrafts : nextId = 1 /\ StartSave(t, 1, <<100>>, draft)
        \/ SaveStats(t)
        \/ RegSteps(t)
        \/ StartToggle(t, 1, 1)
        \/ ToggleUpdate(t)
        \/ StartEditTime(t, 1, 1, "18:00")
        \/ Return(t)

SpecMalformed == InitMalformed /\ [][NextMalformed]_vars

(***************************************************************************)
(* SpecFault: fires of one saved post in which a write to the Post Store   *)
(* may raise after the message has been delivered.                          *)
(***************************************************************************)
\* update_post, update_stats, add_history or the deactivating update_post
\* of the success sequence raises (the database is locked, the disk is
\* full): the call writes nothing, and the exception is caught by the
\* except clause that encloses the delivery and the success sequence.
ExecStoreRaises(t) ==
    /\ tasks[t].pc \in {"ex_upd", "ex_stats", "ex_hist", "ex_deact"}
    /\ tasks' = [tasks EXCEPT ![t].pc = "ex_fstats"]
    /\ UNCHANGED <<pool, posts, nextId, participants, reactions, stats, history, tz, jobs, nextMsg>>

InitFault ==
    \E st \in {"once", "daily"}, pin \in {0, 1} :
        /\ posts = [p \in PostIds |->
               IF p = 1 THEN SavedPost(st, <<"09:00">>, pin) ELSE NoPost]
        /\ nextId = 2
        /\ participants = {}
        /\ reactions = {}
        /\ stats = [u \in Users |->
               [posts_created |-> IF u = 1 THEN 1 ELSE 0, posts_sent |-> 0, posts_failed |-> 0]]
        /\ history = <<>>
        /\ tz = [u \in Users |-> DefaultZone]
        /\ jobs = RegisterJobs(<<>>, SavedPost(st, <<"09:00">>, pin), DefaultZone).jobs
        /\ nextMsg = 1
        /\ pool = OpenPool(PoolSize)
        /\ tasks = [t \in TaskIds |-> Idle]

NextFault ==
    \E t \in TaskIds :
        \/ FireJob(t)
        \/ ExecSteps(t)
        \/ ExecStoreRaises(t)
        \/ DeletePost(t, 1, 1)
        \/ Return(t)

SpecFault == InitFault /\ [][NextFault]_vars

(***************************************************************************)
(* post_kb (keyboards.py) and _update_post_buttons: the markup of a        *)
(* published post.  SpecMarkup: participate and reaction clicks of two     *)
(* users on one post, each followed by the refresh of its buttons.         *)
(***************************************************************************)
\* The label carries no count.
NoCount == -1

Button(kind, text, target, count) ==
    [kind |-> kind, text |-> text, target |-> target, count |-> count]

\* get_all_reaction_counts: {button_id: count} over the buttons that have
\* at least one row.
AllReactionCounts(R, pid) ==
    [b \in {x[2] : x \in {y \in R : y[1] = pid}} |-> CountReactions(R, pid, b)]

\* A keyboard that holds the participate button only.
PostKbParticipateOnly(post_id, has_participate, url_buttons, participant_count, reaction_buttons, reaction_counts) ==
    IF has_participate # 0
    THEN <<<<Button("part", "join", "part", participant_count)>>>>
    ELSE <<>>

\* post_kb: the rows of the keyboard, <<>> for None.
PostKb(post_id, has_participate, url_buttons, participant_count, reaction_buttons, reaction_counts) ==
    LET urls == SelectSeq(url_buttons, LAMBDA b : b.text # "" /\ b.url # "")
        urlRows == [i \in 1..Len(urls) |-> <<Button("url", urls[i].text, urls[i].url, NoCount)>>]
        countOf(id) == IF id \in DOMAIN reaction_counts THEN reaction_counts[id] ELSE 0
        reactionRow ==
            [i \in 1..Len(reaction_buttons) |->
                 LET rb == reaction_buttons[i]
                 IN Button("react", rb.text, rb.id,
                           IF countOf(rb.id) > 0 THEN countOf(rb.id) ELSE NoCount)]
        reactionRows == IF Len(reaction_buttons) > 0 THEN <<reactionRow>> ELSE <<>>
        partRows ==
            IF has_participate # 0
            THEN <<<<Button("part", "join", "part", participant_count)>>>>
            ELSE <<>>
    IN urlRows \o reactionRows \o partRows

\* cb.answer has been sent and the result of the click is in ret; what
\* follows in the handler is _update_post_buttons.
Answered(r) == r.op \in {"participate", "react"} /\ r.pc = "done"

UpdateButtonsGet(t) ==
    /\ Answered(tasks[t])
    /\ LET post == GetPost(tasks[t].pid)
       IN tasks' = [tasks EXCEPT ![t] =
              IF post.post_id = 0 THEN [tasks[t] EXCEPT !.pc = "ub_none"]
              ELSE [tasks[t] EXCEPT !.post = post, !.pc = "ub_part"]]
    /\ UNCHANGED <<pool, posts, nextId, participants, reactions, stats, history, tz, jobs, nextMsg>>

UpdateButtonsPart(t) ==
    /\ tasks[t].pc = "ub_part"
    /\ tasks' = [tasks EXCEPT ![t].cnt = CountParticipants(tasks[t].pid),
                              ![t].pc = "ub_react"]
    /\ UNCHANGED <<pool, posts, nextId, participants, reactions, stats, history, tz, jobs, nextMsg>>

\* get_all_reaction_counts and post_kb: the markup is built from the
\* participant count read before and the reaction counts read now.
UpdateButtonsReact(t) ==
    /\ tasks[t].pc = "ub_react"
    /\ LET r == tasks[t]
       IN tasks' = [tasks EXCEPT ![t] =
              [r EXCEPT !.pc = "ub_edit",
                        !.markup = PostKb(r.pid, r.post.has_participate_button,
                                          r.post.url_buttons, r.cnt, r.post.reaction_buttons,
                                          AllReactionCounts(reactions, r.pid))]]
    /\ UNCHANGED <<pool, posts, nextId, participants, reactions, stats, history, tz, jobs, nextMsg>>

\* safe_edit: the request that replaces the markup of the message reaches
\* the chat; from now on the message shows the markup of this handler.
UpdateButtonsEdit(t) ==
    /\ tasks[t].pc = "ub_edit"
    /\ tasks' = [tasks EXCEPT ![t].pc = "ub_shown"]
    /\ UNCHANGED <<pool, posts, nextId, participants, reactions, stats, history, tz, jobs, nextMsg>>

\* The handler returns after the refresh.
UpdateButtonsReturn(t) ==
    /\ tasks[t].pc \in {"ub_none", "ub_shown"}
    /\ tasks' = [tasks EXCEPT ![t] = Idle]
    /\ UNCHANGED <<pool, posts, nextId, participants, reactions, stats, history, tz, jobs, nextMsg>>

ReactionButtons == <<[id |-> "like", text |-> "up"], [id |-> "dislike", text |-> "down"]>>

InitMarkup ==
    LET post == [SavedPost("daily", <<"09:00">>, 0) EXCEPT
                     !.has_participate_button = 1, !.reaction_buttons = ReactionButtons]
    IN /\ posts = [p \in PostIds |-> IF p = 1 THEN post ELSE NoPost]
       /\ nextId = 2
       /\ participants = {}
       /\ reactions = {}
       /\ stats = [u \in Users |->
              [posts_created |-> IF u = 1 THEN 1 ELSE 0, posts_sent |-> 0,
               posts_failed |-> 0]]
       /\ history = <<>>
       /\ tz = [u \in Users |-> DefaultZone]
       /\ jobs = RegisterJobs(<<>>, post, DefaultZone).jobs
       /\ nextMsg = 1
       /\ pool = OpenPool(PoolSize)
       /\ tasks = [t \in EngageTasks |-> Idle]

\* No other click of user u is being handled.
NoClickOf(u) == \A x \in DOMAIN tasks : tasks[x].op # "idle" => tasks[x].uid # u

NextMarkup ==
    \E t \in EngageTasks :
        \/ \E u \in Users : NoClickOf(u) /\ Participate(t, u, 1)
        \/ PartCount(t)
        \/ \E u \in Users, b \in Buttons, e \in Buttons \cup {""} :
               NoClickOf(u) /\ ReactGet(t, u, 1, b, e)
        \/ ReactRemove(t)
        \/ ReactAdd(t)
        \/ ReactCount(t)
        \/ UpdateButtonsGet(t)
        \/ UpdateButtonsPart(t)
        \/ UpdateButtonsReact(t)
        \/ UpdateButtonsEdit(t)
        \/ UpdateButtonsReturn(t)

SpecMarkup == InitMarkup /\ [][NextMarkup]_vars

(***************************************************************************)
(* SpecPin: fires of one saved post with pin-on-send, the outcome of the   *)
(* pin call recorded.                                                      *)
(***************************************************************************)
\* A pin call with no try of its own: its exception reaches the except
\* clause of the dispatch.
ExecPinCallSurfaces(t, ok) ==
    /\ tasks[t].pc = "ex_pin"
    /\ tasks' = [tasks EXCEPT ![t] =
           IF ok THEN AfterPin([tasks[t] EXCEPT !.pinned = "pinned"])
           ELSE [tasks[t] EXCEPT !.pinned = "failed", !.pc = "ex_fstats"]]
    /\ UNCHANGED <<pool, posts, nextId, participants, reactions, stats, history, tz, jobs, nextMsg>>

\* bot.pin_chat_message inside its own try/except: pass.  ok: the message
\* was pinned; otherwise the call raised and the dispatch goes on.
ExecPinCall(t, ok) ==
    /\ tasks[t].pc = "ex_pin"
    /\ tasks' = [tasks EXCEPT ![t] =
           AfterPin([tasks[t] EXCEPT !.pinned = IF ok THEN "pinned" ELSE "failed"])]
    /\ UNCHANGED <<pool, posts, nextId, participants, reactions, stats, history, tz, jobs, nextMsg>>

InitPin ==
    \E st \in {"once", "daily"}, tm \in ShortTimes :
        /\ posts = [p \in PostIds |-> IF p = 1 THEN SavedPost(st, tm, 1) ELSE NoPost]
        /\ nextId = 2
        /\ participants = {}
        /\ reactions = {}
        /\ stats = [u \in Users |->
               [posts_created |-> IF u = 1 THEN 1 ELSE 0, posts_sent |-> 0, posts_failed |-> 0]]
        /\ history = <<>>
        /\ tz = [u \in Users |-> DefaultZone]
        /\ jobs = RegisterJobs(<<>>, SavedPost(st, tm, 1), DefaultZone).jobs
        /\ nextMsg = 1
        /\ pool = OpenPool(PoolSize)
        /\ tasks = [t \in TaskIds |-> Idle]

NextPin ==
    \E t \in TaskIds :
        \/ FireJob(t)
        \/ ExecGet(t)
        \/ ExecCount(t)
        \/ \E ok \in BOOLEAN : ExecSend(t, ok)
        \/ ExecUpdate(t)
        \/ ExecStats(t)
        \/ ExecHistory(t)
        \/ \E ok \in BOOLEAN : ExecPinCall(t, ok)
        \/ ExecDeactivate(t)
        \/ ExecFailStats(t)
        \/ ExecFailHistory(t)
        \/ \E ok \in BOOLEAN : ExecNotify(t, ok)
        \/ Return(t)

SpecPin == InitPin /\ [][NextPin]_vars

(***************************************************************************)
(* SpecStats: the operations that touch the statistics or remove posts:    *)
(* save, import, publish-now, fires, delete and the bulk operations.       *)
(***************************************************************************)
NextStats ==
    \E t \in TaskIds :
        \/ Room(1) /\ StartSave(t, 1, <<100>>, Draft("daily", <<"09:00">>))
        \/ SaveStats(t)
        \/ RegSteps(t)
        \/ /\ Room(1)
           /\ Dispatches + 1 <= MaxFires
           /\ \E pin \in {0, 1} : StartPublish(t, 1, <<100>>, pin)
        \/ Room(1) /\ StartWeb(t, "web_import", 1, 1)
        \/ WebImportChats(t, <<Draft("daily", <<"09:00">>)>>)
        \/ WebImportAdd(t)
        \/ FireJob(t)
        \/ ExecGet(t)
        \/ ExecCount(t)
        \/ \E ok \in BOOLEAN : ExecSend(t, ok)
        \/ ExecUpdate(t)
        \/ ExecStats(t)
        \/ ExecHistory(t)
        \/ ExecPin(t)
        \/ ExecFailStats(t)
        \/ ExecFailHistory(t)
        \/ \E ok \in BOOLEAN : ExecNotify(t, ok)
        \/ \E pid \in PostIds : DeletePost(t, 1, pid)
        \/ BulkDisable(t, 1)
        \/ BulkDelete(t, 1, "all")
        \/ Return(t)

SpecStats == Init /\ [][NextStats]_vars

(***************************************************************************)
(* SchedulerBot._register_single_job and SchedulerBot._execute_post        *)
(* (bot.py): the copies of _register_job and _execute_post that the        *)
(* bootstrap uses, translated from their own text.  SpecCopies runs both   *)
(* copies on the same states.                                              *)
(***************************************************************************)
SingleJobLimit == 10

\* A copy that adds its jobs without removing the entries of the post.
RegisterSingleJobKeepsOld(J, post, zone) ==
    IF Schedulable(post) THEN AddJobs(J, post, zone) ELSE [jobs |-> J, raised |-> FALSE]

\* The synchronous tail of _register_single_job: the ten remove_job calls,
\* then the branch of the schedule type, whose loop adds one job per time
\* until a time (or the date) does not parse.
RegisterSingleJob(J, post, zone) ==
    LET pid == post.post_id
        st == post.schedule_type
        tm == post.scheduled_time
        J1 == [k \in DOMAIN J \ {<<pid, suffix>> : suffix \in 0..(SingleJobLimit - 1)} |-> J[k]]
        branch ==
            \/ st = "once" /\ post.scheduled_date # "" /\ tm # <<>>
            \/ st = "daily" /\ tm # <<>>
            \/ st = "weekly" /\ tm # <<>> /\ post.days_of_week # <<>>
            \/ st = "monthly" /\ tm # <<>> /\ post.day_of_month # 0
        Raises(i) ==
            \/ ParseTime(tm[i]) = BadParse
            \/ st = "once" /\ ParseDate(post.scheduled_date) = BadDate
        added == {i \in 1..Len(tm) : \A j \in 1..i : ~Raises(j)}
        Trigger(i) ==
            IF st = "once" THEN DateTrigger(post.scheduled_date, tm[i], zone)
            ELSE IF st = "daily" THEN CronTrigger({}, 0, tm[i], zone)
            ELSE IF st = "weekly"
            THEN CronTrigger({post.days_of_week[d] : d \in 1..Len(post.days_of_week)},
                             0, tm[i], zone)
            ELSE CronTrigger({}, post.day_of_month, tm[i], zone)
        new == {<<pid, i - 1>> : i \in added}
    IN IF branch
       THEN [jobs |-> [k \in DOMAIN J1 \cup new |->
                          IF k \in new THEN Trigger(k[2] + 1) ELSE J1[k]],
             raised |-> added # 1..Len(tm)]
       ELSE [jobs |-> J1, raised |-> FALSE]

SingleJobGet(t) ==
    /\ tasks[t].pc = "reg_get"
    /\ LET post == GetPost(tasks[t].pid)
       IN tasks' = [tasks EXCEPT ![t] =
              IF post.post_id = 0 \/ post.is_active = 0 THEN RegReturn(tasks[t])
              ELSE [tasks[t] EXCEPT !.post = post, !.pc = "reg_tz"]]
    /\ UNCHANGED <<pool, posts, nextId, participants, reactions, stats, history, tz, jobs, nextMsg>>

SingleJobTz(t) ==
    /\ tasks[t].pc = "reg_tz"
    /\ LET post == tasks[t].post
           zone == IF post.owner_id \in DOMAIN tz THEN tz[post.owner_id] ELSE DefaultZone
           r == RegisterSingleJob(jobs, post, zone)
       IN /\ jobs' = r.jobs
          /\ tasks' = [tasks EXCEPT ![t] =
                 IF r.raised THEN RegRaise(tasks[t]) ELSE RegReturn(tasks[t])]
    /\ UNCHANGED <<pool, posts, nextId, participants, reactions, stats, history, tz, nextMsg>>

BotExecGet(t) ==
    /\ tasks[t].pc = "ex_get"
    /\ tasks' = [tasks EXCEPT ![t] =
           IF GetPost(tasks[t].pid).post_id = 0 THEN ExecReturn(tasks[t], FALSE)
           ELSE [tasks[t] EXCEPT !.post = GetPost(tasks[t].pid), !.pc = "ex_count"]]
    /\ UNCHANGED <<pool, posts, nextId, participants, reactions, stats, history, tz, jobs, nextMsg>>

BotExecCount(t) ==
    /\ tasks[t].pc = "ex_count"
    /\ tasks' = [tasks EXCEPT ![t] =
           [tasks[t] EXCEPT !.cnt = CountParticipants(tasks[t].post.post_id), !.pc = "ex_send"]]
    /\ UNCHANGED <<pool, posts, nextId, participants, reactions, stats, history, tz, jobs, nextMsg>>

BotExecSend(t, ok) ==
    /\ tasks[t].pc = "ex_send"
    /\ tasks' = [tasks EXCEPT ![t] =
           IF ok THEN [tasks[t] EXCEPT !.mid = nextMsg, !.pc = "ex_upd"]
           ELSE [tasks[t] EXCEPT !.pc = "ex_fstats"]]
    /\ nextMsg' = IF ok THEN nextMsg + 1 ELSE nextMsg
    /\ UNCHANGED <<pool, posts, nextId, participants, reactions, stats, history, tz, jobs>>

BotExecUpdate(t) ==
    /\ tasks[t].pc = "ex_upd"
    /\ posts' = SetSent(posts, tasks[t].pid, tasks[t].mid,
                        tasks[t].post.execution_count + 1, 1)
    /\ tasks' = [tasks EXCEPT ![t].pc = "ex_stats"]
    /\ UNCHANGED <<pool, nextId, participants, reactions, stats, history, tz, jobs, nextMsg>>

BotExecStats(t) ==
    /\ tasks[t].pc = "ex_stats"
    /\ stats' = BumpStats(stats, tasks[t].post.owner_id, 0, 1, 0)
    /\ tasks' = [tasks EXCEPT ![t].pc = "ex_hist"]
    /\ UNCHANGED <<pool, posts, nextId, participants, reactions, history, tz, jobs, nextMsg>>

\* After the pin: the deactivation of a once post, then return True.
BotAfterPin(r) ==
    IF r.post.schedule_type = "once" THEN [r EXCEPT !.pc = "ex_deact"]
    ELSE ExecReturn(r, TRUE)

BotExecHistory(t) ==
    /\ tasks[t].pc = "ex_hist"
    /\ history' = Append(history, HistoryRow(tasks[t].pid, tasks[t].post.chat_id,
                                             tasks[t].mid, 1, ""))
    /\ tasks' = [tasks EXCEPT ![t] =
           IF tasks[t].post.pin_post # 0 THEN [tasks[t] EXCEPT !.pc = "ex_pin"]
           ELSE BotAfterPin(tasks[t])]
    /\ UNCHANGED <<pool, posts, nextId, participants, reactions, stats, tz, jobs, nextMsg>>

BotExecPin(t) ==
    /\ tasks[t].pc = "ex_pin"
    /\ tasks' = [tasks EXCEPT ![t] = BotAfterPin(tasks[t])]
    /\ UNCHANGED <<pool, posts, nextId, participants, reactions, stats, history, tz, jobs, nextMsg>>

BotExecDeactivate(t) ==
    /\ tasks[t].pc = "ex_deact"
    /\ posts' = SetActive(posts, tasks[t].pid, 0)
    /\ tasks' = [tasks EXCEPT ![t] = ExecReturn(tasks[t], TRUE)]
    /\ UNCHANGED <<pool, nextId, participants, reactions, stats, history, tz, jobs, nextMsg>>

BotExecFailStats(t) ==
    /\ tasks[t].pc = "ex_fstats"
    /\ stats' = BumpStats(stats, tasks[t].post.owner_id, 0, 0, 1)
    /\ tasks' = [tasks EXCEPT ![t].pc = "ex_fhist"]
    /\ UNCHANGED <<pool, posts, nextId, participants, reactions, history, tz, jobs, nextMsg>>

BotExecFailHistory(t) ==
    /\ tasks[t].pc = "ex_fhist"
    /\ history' = Append(history, HistoryRow(tasks[t].pid, tasks[t].post.chat_id,
                                             0, 0, "error"))
    /\ tasks' = [tasks EXCEPT ![t].pc = "ex_notify"]
    /\ UNCHANGED <<pool, posts, nextId, participants, reactions, stats, tz, jobs, nextMsg>>

\* self._notify_error: the function the front-end is given as notify_error.
BotExecNotify(t, ok) ==
    /\ tasks[t].pc = "ex_notify"
    /\ tasks' = [tasks EXCEPT ![t] =
           ExecReturn([tasks[t] EXCEPT !.notified = IF ok THEN 1 ELSE 0], FALSE)]
    /\ UNCHANGED <<pool, posts, nextId, participants, reactions, stats, history, tz, jobs, nextMsg>>

BotExecSteps(t) ==
    \/ BotExecGet(t)
    \/ BotExecCount(t)
    \/ \E ok \in BOOLEAN : BotExecSend(t, ok)
    \/ BotExecUpdate(t)
    \/ BotExecStats(t)
    \/ BotExecHistory(t)
    \/ BotExecPin(t)
    \/ BotExecDeactivate(t)
    \/ BotExecFailStats(t)
    \/ BotExecFailHistory(t)
    \/ \E ok \in BOOLEAN : BotExecNotify(t, ok)

\* Rows of every schedule type, with a time list that parses and one whose
\* second time does not; the once posts are pinned on send.
CopyPosts ==
    {SavedPost(st, tm, IF st = "once" THEN 1 ELSE 0) :
         st \in ScheduleTypes, tm \in {<<"09:00">>, <<"09:00", "9h">>}}

\* The registry is empty, as at the bootstrap, or holds the two entries of
\* an earlier, longer time list of the post, as before a re-registration.
InitCopies ==
    /\ posts \in [PostIds -> {NoPost} \cup CopyPosts]
    /\ posts[1] # NoPost
    /\ \A p \in PostIds : p # 1 => posts[p] = NoPost
    /\ nextId = 2
    /\ participants = {}
    /\ reactions = {}
    /\ stats = [u \in Users |->
           [posts_created |-> IF u = 1 THEN 1 ELSE 0, posts_sent |-> 0, posts_failed |-> 0]]
    /\ history = <<>>
    /\ tz = [u \in Users |-> DefaultZone]
    /\ jobs \in {<<>>,
                 RegisterJobs(<<>>, SavedPost("daily", <<"09:00", "18:00">>, 0),
                              DefaultZone).jobs}
    /\ nextMsg = 1
    /\ pool = OpenPool(PoolSize)
    /\ tasks = [t \in TaskIds |-> Idle]

NextCopies ==
    \E t \in TaskIds :
        \/ \E order \in Orders(ActiveIds(posts)) : LoadJobs(t, order)
        \/ BootGet(t)
        \/ SingleJobGet(t)
        \/ SingleJobTz(t)
        \/ RegSteps(t)
        \/ FireJob(t)
        \/ ExecSteps(t)
        \/ BotExecSteps(t)
        \/ Return(t)

SpecCopies == InitCopies /\ [][NextCopies]_vars

(***************************************************************************)
(* SpecKb: dispatches of posts with every combination of URL buttons,      *)
(* reaction buttons, participate button and media, the markup and the      *)
(* send method recorded.                                                   *)
(***************************************************************************)
\* count_participants of the dispatch.
ExecCountParticipants(t) ==
    /\ tasks[t].pc = "ex_count"
    /\ tasks' = [tasks EXCEPT ![t].cnt = CountParticipants(tasks[t].post.post_id),
                              ![t].pc = "ex_rcount"]
    /\ UNCHANGED <<pool, posts, nextId, participants, reactions, stats, history, tz, jobs, nextMsg>>

\* get_all_reaction_counts of the dispatch, then post_kb.
ExecMarkup(t) ==
    /\ tasks[t].pc = "ex_rcount"
    /\ LET r == tasks[t]
       IN tasks' = [tasks EXCEPT ![t] =
              [r EXCEPT !.pc = "ex_send",
                        !.markup = PostKb(r.post.post_id, r.post.has_participate_button,
                                          r.post.url_buttons, r.cnt, r.post.reaction_buttons,
                                          AllReactionCounts(reactions, r.post.post_id))]]
    /\ UNCHANGED <<pool, posts, nextId, participants, reactions, stats, history, tz, jobs, nextMsg>>

\* The send call the media fields select.
SendMethod(post) ==
    IF post.media_type = "text" \/ post.media_file_id = "" THEN "send_message"
    ELSE IF post.media_type = "photo" THEN "send_photo"
    ELSE IF post.media_type = "video" THEN "send_video"
    ELSE "send_document"

\* The delivery call, made with reply_markup = markup.
ExecSendWith(t, ok) ==
    /\ tasks[t].pc = "ex_send"
    /\ tasks[t].method = "none"
    /\ tasks' = [tasks EXCEPT ![t] =
           [tasks[t] EXCEPT !.method = SendMethod(tasks[t].post),
                            !.mid = IF ok THEN nextMsg ELSE 0,
                            !.pc = IF ok THEN "ex_upd" ELSE "ex_fstats"]]
    /\ nextMsg' = IF ok THEN nextMsg + 1 ELSE nextMsg
    /\ UNCHANGED <<pool, posts, nextId, participants, reactions, stats, history, tz, jobs>>

\* URL button lists: what the add-button dialogue stores, and what an
\* import can store (a button with an empty text).
UrlLists ==
    {<<>>,
     <<[text |-> "site", url |-> "https://a"]>>,
     <<[text |-> "", url |-> "https://b"]>>,
     <<[text |-> "site", url |-> "https://a"], [text |-> "", url |-> "https://b"],
       [text |-> "shop", url |-> "https://c"]>>}

Media == {<<"text", "">>, <<"photo", "">>, <<"photo", "f1">>, <<"document", "f2">>}

KbPosts ==
    {[SavedPost(st, <<"09:00">>, IF st = "once" THEN 1 ELSE 0) EXCEPT
          !.url_buttons = u, !.reaction_buttons = rb, !.has_participate_button = hp,
          !.media_type = md[1], !.media_file_id = md[2]] :
         st \in {"once", "daily"}, u \in UrlLists, rb \in {<<>>, ReactionButtons},
         hp \in {0, 1}, md \in Media}

InitKb ==
    /\ posts \in [PostIds -> {NoPost} \cup KbPosts]
    /\ posts[1] # NoPost
    /\ \A p \in PostIds : p # 1 => posts[p] = NoPost
    /\ nextId = 2
    /\ participants \in {{}, {<<1, 2>>}}
    /\ reactions \in {{}, {<<1, "like", 1>>, <<1, "like", 2>>}}
    /\ stats = [u \in Users |->
           [posts_created |-> IF u = 1 THEN 1 ELSE 0, posts_sent |-> 0, posts_failed |-> 0]]
    /\ history = <<>>
    /\ tz = [u \in Users |-> DefaultZone]
    /\ jobs = RegisterJobs(<<>>, posts[1], DefaultZone).jobs
    /\ nextMsg = 1
    /\ pool = OpenPool(PoolSize)
    /\ tasks = [t \in TaskIds |-> Idle]

NextKb ==
    \E t \in TaskIds :
        \/ \E k \in DOMAIN jobs : history = <<>> /\ Fire(t, k)
        \/ ExecGet(t)
        \/ ExecCountParticipants(t)
        \/ ExecMarkup(t)
        \/ \E ok \in BOOLEAN : ExecSendWith(t, ok)
        \/ ExecUpdate(t)
        \/ ExecStats(t)
        \/ ExecHistory(t)
        \/ ExecPin(t)
        \/ ExecDeactivate(t)
        \/ ExecFailStats(t)
        \/ ExecFailHistory(t)
        \/ \E ok \in BOOLEAN : ExecNotify(t, ok)
        \/ Return(t)

SpecKb == InitKb /\ [][NextKb]_vars

(***************************************************************************)
(* SpecPublish: publish-now over one or two selected chats, each user      *)
(* publishing at most once, with both outcomes of every delivery.          *)
(***************************************************************************)
PublishIds == 1..(2 * MaxTasks)

\* selected_chats of the publish-now dialogue: the chats ticked by the user.
SelectedChats == {<<100>>, <<100, 200>>}

NoPublishOf(u) ==
    /\ \A p \in DOMAIN posts : posts[p].owner_id # u
    /\ \A t \in DOMAIN tasks : tasks[t].uid # u

InitPublish ==
    /\ posts = [p \in PublishIds |-> NoPost]
    /\ nextId = 1
    /\ participants = {}
    /\ reactions = {}
    /\ stats = [u \in Users |-> [posts_created |-> 0, posts_sent |-> 0, posts_failed |-> 0]]
    /\ history = <<>>
    /\ tz = [u \in Users |-> DefaultZone]
    /\ jobs = <<>>
    /\ nextMsg = 1
    /\ pool = OpenPool(PoolSize)
    /\ tasks = [t \in TaskIds |-> Idle]

NextPublish ==
    \E t \in TaskIds :
        \/ \E u \in Users, chats \in SelectedChats, pin \in {0, 1} :
               /\ NoPublishOf(u)
               /\ StartPublish(t, u, chats, pin)
        \/ PublishAdd(t)
        \/ ExecGet(t)
        \/ ExecCount(t)
        \/ \E ok \in BOOLEAN : ExecSend(t, ok)
        \/ ExecUpdate(t)
        \/ ExecStats(t)
        \/ ExecHistory(t)
        \/ ExecPin(t)
        \/ ExecFailStats(t)
        \/ ExecFailHistory(t)
        \/ \E ok \in BOOLEAN : ExecNotify(t, ok)
        \/ Return(t)

SpecPublish == InitPublish /\ [][NextPublish]_vars

(***************************************************************************)
(* SpecPool: the connection pool.  A handler is the sequence of the store  *)
(* operations and delivery calls it awaits; a store operation waits at     *)
(* self._pool.get(), runs its statements holding the connection, and puts  *)
(* the connection back in the finally clause of get_conn.  The steps keep  *)
(* the account of the connections; what the statements do to the rows is   *)
(* the subject of the actions above.  The first handler is a dispatch.     *)
(***************************************************************************)
PoolTasks == 1..(MaxTasks + 1)
PoolSizes == 1..MaxTasks

\* The calls that go to the delivery channel, not to the store.
DeliverySteps == {"send", "pin", "notify", "answer", "edit"}

\* _execute_post of a once post that is pinned, and its except branch.
DispatchPlan ==
    <<"get_post", "count_participants", "get_all_reaction_counts", "send", "update_post",
      "update_stats", "add_history", "pin", "update_post">>

FailPlan == <<"update_stats", "add_history", "notify">>

\* cb_react for a first vote, then _update_post_buttons.
ReactPlan ==
    <<"get_user_reaction", "add_reaction", "count_reactions", "answer", "get_post",
      "count_participants", "get_all_reaction_counts", "edit">>

\* WebPanel.export_posts: _auth, then db.export_posts, which is get_posts.
ExportPlan == <<"get_user_by_token", "get_posts">>

\* cb_duplicate_post: db.duplicate_post is get_post followed by add_post.
DuplicatePlan == <<"get_post", "add_post">>

PlanOf(op) ==
    CASE op = "fire" -> DispatchPlan
      [] op = "react" -> ReactPlan
      [] op = "web_export" -> ExportPlan
      [] OTHER -> DuplicatePlan

PoolOps == {"fire", "react", "web_export", "duplicate"}

Has(seq, x) == \E i \in 1..Len(seq) : seq[i] = x

\* The task at the first of the steps left, or finished with v.
AtSteps(r, steps, v) ==
    IF steps = <<>>
    THEN Done([r EXCEPT !.steps = <<>>], v)
    ELSE [r EXCEPT !.steps = steps,
                   !.pc = IF Head(steps) \in DeliverySteps THEN "deliver" ELSE "db_wait"]

\* The statements of _execute_post inside its try block: those after the
\* send, outside the except branch.
InTry(r) == r.op = "fire" /\ ~Has(r.steps, "send") /\ ~Has(r.steps, "notify")

StartOp(t, op) ==
    /\ tasks[t].op = "idle"
    /\ tasks' = [tasks EXCEPT ![t] = AtSteps([Idle EXCEPT !.op = op], PlanOf(op), "true")]
    /\ UNCHANGED <<pool, posts, nextId, participants, reactions, stats, history, tz, jobs, nextMsg>>

\* conn = await self._pool.get(): taken when the queue is not empty.
Acquire(t) ==
    /\ tasks[t].pc = "db_wait"
    /\ pool.idle > 0
    /\ pool' = [pool EXCEPT !.idle = @ - 1]
    /\ tasks' = [tasks EXCEPT ![t] = [tasks[t] EXCEPT !.pc = "db_run", !.conn = @ + 1]]
    /\ UNCHANGED <<posts, nextId, participants, reactions, stats, history, tz, jobs, nextMsg>>

\* A raising statement that keeps the connection out of the pool.
StoreRaiseLeaks(t) ==
    /\ tasks[t].pc = "db_run"
    /\ tasks' = [tasks EXCEPT ![t] = Done([tasks[t] EXCEPT !.steps = <<>>], "raised")]
    /\ UNCHANGED <<pool, posts, nextId, participants, reactions, stats, history, tz, jobs, nextMsg>>

\* A store operation that keeps its connection when a delivery call follows.
StoreReturnHoldsOn(t) ==
    /\ tasks[t].pc = "db_run"
    /\ LET r == tasks[t]
           rest == Tail(r.steps)
           keep == rest # <<>> /\ Head(rest) \in DeliverySteps
       IN /\ pool' = [pool EXCEPT !.idle = IF keep THEN @ ELSE @ + r.conn]
          /\ tasks' = [tasks EXCEPT ![t] =
                 AtSteps([r EXCEPT !.conn = IF keep THEN @ ELSE 0], rest,
                         IF Has(r.steps, "notify") THEN "false" ELSE "true")]
    /\ UNCHANGED <<posts, nextId, participants, reactions, stats, history, tz, jobs, nextMsg>>

\* The statements ran: finally puts the connection back, the handler goes on.
StoreReturn(t) ==
    /\ tasks[t].pc = "db_run"
    /\ pool' = [pool EXCEPT !.idle = @ + 1]
    /\ tasks' = [tasks EXCEPT ![t] =
           AtSteps([tasks[t] EXCEPT !.conn = @ - 1], Tail(tasks[t].steps),
                   IF Has(tasks[t].steps, "notify") THEN "false" ELSE "true")]
    /\ UNCHANGED <<posts, nextId, participants, reactions, stats, history, tz, jobs, nextMsg>>

\* A statement raised: finally puts the connection back; the exception goes
\* to the except branch of _execute_post or out of the handler.
StoreRaise(t) ==
    /\ tasks[t].pc = "db_run"
    /\ pool' = [pool EXCEPT !.idle = @ + 1]
    /\ tasks' = [tasks EXCEPT ![t] =
           LET r == [tasks[t] EXCEPT !.conn = @ - 1]
           IN IF InTry(r) THEN AtSteps(r, FailPlan, "false")
              ELSE Done([r EXCEPT !.steps = <<>>], "raised")]
    /\ UNCHANGED <<posts, nextId, participants, reactions, stats, history, tz, jobs, nextMsg>>

\* A call to the delivery channel comes back: a failed send goes to the
\* except branch, a failed answer leaves the handler, a failed pin, edit
\* or notification is swallowed.
Deliver(t, ok) ==
    /\ tasks[t].pc = "deliver"
    /\ tasks' = [tasks EXCEPT ![t] =
           LET r == tasks[t]
               step == Head(r.steps)
           IN IF ~ok /\ step = "send" THEN AtSteps(r, FailPlan, "false")
              ELSE IF ~ok /\ step = "answer" THEN Done([r EXCEPT !.steps = <<>>], "raised")
              ELSE AtSteps(r, Tail(r.steps), IF step = "notify" THEN "false" ELSE "true")]
    /\ UNCHANGED <<pool, posts, nextId, participants, reactions, stats, history, tz, jobs, nextMsg>>

\* Database.close at shutdown: takes the waiting connections one by one and
\* closes them, until it finds the pool empty.
StartClose ==
    /\ pool.state = "open"
    /\ pool' = [pool EXCEPT !.state = "closing"]
    /\ UNCHANGED <<posts, nextId, participants, reactions, stats, history, tz, jobs, nextMsg, tasks>>

CloseOne ==
    /\ pool.state = "closing"
    /\ pool.idle > 0
    /\ pool' = [pool EXCEPT !.idle = @ - 1]
    /\ UNCHANGED <<posts, nextId, participants, reactions, stats, history, tz, jobs, nextMsg, tasks>>

CloseEnd ==
    /\ pool.state = "closing"
    /\ pool.idle = 0
    /\ pool' = [pool EXCEPT !.state = "closed"]
    /\ UNCHANGED <<posts, nextId, participants, reactions, stats, history, tz, jobs, nextMsg, tasks>>

InitPool ==
    /\ posts = [p \in PostIds |-> NoPost]
    /\ nextId = 1
    /\ participants = {}
    /\ reactions = {}
    /\ stats = [u \in Users |-> [posts_created |-> 0, posts_sent |-> 0, posts_failed |-> 0]]
    /\ history = <<>>
    /\ tz = [u \in Users |-> DefaultZone]
    /\ jobs = <<>>
    /\ nextMsg = 1
    /\ tasks = [t \in PoolTasks |-> Idle]
    /\ \E n \in PoolSizes : pool = OpenPool(n)

PoolSteps(t) ==
    \/ \E op \in PoolOps : (t = 1 => op = "fire") /\ StartOp(t, op)
    \/ Acquire(t)
    \/ StoreReturn(t)
    \/ StoreRaise(t)
    \/ \E ok \in BOOLEAN : Deliver(t, ok)

NextPool ==
    \/ \E t \in PoolTasks : PoolSteps(t)
    \/ StartClose
    \/ CloseOne
    \/ CloseEnd

SpecPool == InitPool /\ [][NextPool]_vars

\* The running bot, before the shutdown: the event loop resumes every
\* handler that can go on, and the statements of a store operation come to
\* an end; a call to the delivery channel may stay suspended for good, here
\* that of the first handler.
NextRun == \E t \in PoolTasks : PoolSteps(t)

SpecRun ==
    /\ InitPool
    /\ [][NextRun]_vars
    /\ \A t \in PoolTasks :
           /\ WF_vars(Acquire(t))
           /\ WF_vars(StoreReturn(t) \/ StoreRaise(t))
           /\ t # 1 => WF_vars(\E ok \in BOOLEAN : Deliver(t, ok))

(***************************************************************************)
(* Properties                                                              *)
(***************************************************************************)
Quiet == \A t \in DOMAIN tasks : tasks[t].pc \in {"idle", "done"}

Finished(t, op, ret) ==
    /\ tasks[t].op = op
    /\ tasks[t].pc = "done"
    /\ tasks[t].ret = ret

\* A handler that called _register_job has returned and the post it
\* registered is in the store, active.
Registered(t) ==
    /\ tasks[t].pc = "done"
    /\ \/ tasks[t].op = "save" /\ tasks[t].ret = "saved"
       \/ tasks[t].op = "toggle" /\ tasks[t].ret = "toggled"
       \/ tasks[t].op = "edit" /\ tasks[t].ret = "updated"
    /\ tasks[t].pid \in PostIds
    /\ Exists(tasks[t].pid)
    /\ IsActive(posts[tasks[t].pid])

ValidTimes(tm) == tm # <<>> /\ \A i \in 1..Len(tm) : ParseTime(tm[i]) # BadParse

\* C1: whenever no handler is in progress, a post whose is_active flag is 0
\* in the Post Store has no entry in the Job Registry.
C1_InactiveHasNoJobs ==
    Quiet => \A p \in PostIds :
                 (Exists(p) /\ posts[p].is_active = 0) => JobsOf(jobs, p) = {}

\* C2: when a web PUT by the owner that sets is_active has completed, the
\* registry holds the post's entries if it turned the flag on and none if
\* it turned the flag off.
C2_WebPutSyncsRegistry ==
    \A t \in DOMAIN tasks :
        (Finished(t, "web_update", "updated") /\ tasks[t].data.hasActive)
        => LET p == tasks[t].pid
           IN IF tasks[t].data.active = 1
              THEN (Schedulable(posts[p]) /\ ValidTimes(posts[p].scheduled_time))
                   => IndicesOf(jobs, p) = 0..(Len(posts[p].scheduled_time) - 1)
              ELSE JobsOf(jobs, p) = {}

\* C3: when a web DELETE by the owner has completed, the post is gone from
\* the Post Store and the registry holds no entry for its id.
C3_WebDeleteUnregisters ==
    \A t \in DOMAIN tasks :
        Finished(t, "web_delete", "deleted")
        => /\ ~Exists(tasks[t].pid)
           /\ JobsOf(jobs, tasks[t].pid) = {}

\* C4: when the bot's delete of post p has completed, the store holds no
\* row and no participant of p, count_participants(p) is 0 and the registry
\* holds no entry keyed by p.
C4_BotDeleteRemovesAll ==
    \A t \in DOMAIN tasks :
        Finished(t, "delete", "deleted")
        => LET p == tasks[t].pid
           IN /\ ~Exists(p)
              /\ \A x \in participants : x[1] # p
              /\ CountParticipants(p) = 0
              /\ JobsOf(jobs, p) = {}

\* C5: _remove_job leaves no entry of the post, whatever the registry holds
\* (absent entries included), and a second call changes nothing more; so
\* when a toggle that turned a post off has completed, the post has no entry.
C5_RemoveJobRemovesEveryEntry ==
    /\ \A p \in PostIds :
           /\ JobsOf(RemoveJob(jobs, p), p) = {}
           /\ RemoveJob(RemoveJob(jobs, p), p) = RemoveJob(jobs, p)
    /\ \A t \in DOMAIN tasks :
           (Finished(t, "toggle", "toggled") /\ Exists(tasks[t].pid)
            /\ ~IsActive(posts[tasks[t].pid]))
           => JobsOf(jobs, tasks[t].pid) = {}

\* C6: when an active recurring post has been re-registered after an edit
\* of its time list to M entries, the registry holds exactly the M entries
\* with indices 0..M-1 for it.
C6_ReRegisterReplacesAll ==
    \A t \in DOMAIN tasks :
        (Registered(t) /\ tasks[t].op \in {"toggle", "edit"}
         /\ posts[tasks[t].pid].schedule_type \in {"daily", "weekly", "monthly"}
         /\ ValidTimes(posts[tasks[t].pid].scheduled_time))
        => IndicesOf(jobs, tasks[t].pid)
               = 0..(Len(posts[tasks[t].pid].scheduled_time) - 1)

WeeklyRegistered(t) ==
    /\ Registered(t)
    /\ posts[tasks[t].pid].schedule_type = "weekly"
    /\ posts[tasks[t].pid].days_of_week # <<>>
    /\ ValidTimes(posts[tasks[t].pid].scheduled_time)

OnceRegistered(t) ==
    /\ Registered(t)
    /\ posts[tasks[t].pid].schedule_type = "once"
    /\ ParseDate(posts[tasks[t].pid].scheduled_date) # BadDate
    /\ ValidTimes(posts[tasks[t].pid].scheduled_time)

C9_InstantNeverScheduledAndDeactivated ==
    /\ \A p \in PostIds :
           (Exists(p) /\ posts[p].schedule_type = "instant") => JobsOf(jobs, p) = {}
    /\ \A t \in DOMAIN tasks :
           (Finished(t, "publish", "published") /\ Exists(tasks[t].pid))
           => posts[tasks[t].pid].is_active = 0

FailPath == {"ex_fstats", "ex_fhist", "ex_notify"}

\* C10: the step that ends a dispatch of a once post whose delivery
\* succeeded leaves is_active = 0 in the post's row, and no step of a
\* dispatch whose delivery failed changes the row.
C10_OnceDeactivatedOnSuccessOnly ==
    [][\A t \in DOMAIN tasks :
           LET r == tasks[t]
               q == tasks'[t]
           IN (r.op = "fire" /\ r.pc # "done" /\ r.post.schedule_type = "once")
              => /\ (q.pc = "done" /\ q.ret = "true" /\ posts'[r.pid].post_id # 0)
                        => posts'[r.pid].is_active = 0
                 /\ (q # r /\ (r.pc \in FailPath \/ q.pc \in FailPath))
                        => posts' = posts]_vars

C10_Witness ==
    \E t \in DOMAIN tasks :
        /\ Finished(t, "fire", "true")
        /\ tasks[t].post.schedule_type = "once"
        /\ Exists(tasks[t].pid)
        /\ posts[tasks[t].pid].is_active = 0
        /\ \E i \in 1..Len(history) :
               /\ history[i].post_id = tasks[t].pid
               /\ history[i].success = 0

IsDispatch(r) == r.op \in {"fire", "publish"}

\* C11: in a dispatch whose delivery succeeded, the step after the send
\* writes the delivered message id, the execution_count the dispatch read
\* plus 1 and a last_sent_at stamp to the post's row (if it still exists);
\* the next step raises the owner's posts_sent by 1 and nothing else in the
\* statistics; the next appends one History success row with that message
\* id; no other step of the success path touches the statistics or the
\* History; and the dispatch returns true.
C11_SuccessBookkeeping ==
    [][\A t \in DOMAIN tasks :
           LET r == tasks[t]
               q == tasks'[t]
               own == r.post.owner_id
           IN (IsDispatch(r) /\ q # r)
              => /\ r.pc = "ex_upd"
                      => /\ stats' = stats /\ history' = history
                         /\ posts[r.pid].post_id # 0
                                => posts' = [posts EXCEPT
                                       ![r.pid].sent_message_id = r.mid,
                                       ![r.pid].execution_count = r.post.execution_count + 1,
                                       ![r.pid].last_sent_at = 1]
                 /\ r.pc = "ex_stats"
                      => /\ stats' = [stats EXCEPT ![own].posts_sent = @ + 1]
                         /\ history' = history /\ posts' = posts
                 /\ r.pc = "ex_hist"
                      => /\ history' = Append(history,
                                [post_id |-> r.pid, chat_id |-> r.post.chat_id,
                                 message_id |-> r.mid, success |-> 1, error_text |-> ""])
                         /\ stats' = stats /\ posts' = posts
                 /\ r.pc \in {"ex_pin", "ex_deact"}
                      => stats' = stats /\ history' = history
                 /\ (r.pc \in {"ex_hist", "ex_pin", "ex_deact"} /\ q.pc = "done"
                     /\ r.op = "fire")
                      => q.ret = "true"]_vars

C11_Witness ==
    \E t \in DOMAIN tasks :
        LET r == tasks[t]
        IN /\ Finished(t, "fire", "true")
           /\ Exists(r.pid)
           /\ posts[r.pid].sent_message_id = r.mid
           /\ posts[r.pid].execution_count = r.post.execution_count + 1
           /\ posts[r.pid].last_sent_at # 0
           /\ stats[r.post.owner_id].posts_sent = 1
           /\ Len(history) = 1
           /\ history[1].success = 1 /\ history[1].message_id = r.mid

\* C12: when every dispatch of post 1 that has started has finished and
\* every delivery succeeded, the post's execution_count and its owner's
\* posts_sent both equal the number of History success rows, however the
\* dispatches overlapped.
C12_ConcurrentDispatchesCount ==
    (/\ Quiet
     /\ Exists(1)
     /\ \A i \in 1..Len(history) : history[i].success = 1)
    => /\ posts[1].execution_count = Len(history)
       /\ stats[1].posts_sent = Len(history)

\* C13: a dispatch whose delivery raised raises the owner's posts_failed
\* by 1 and nothing else in the statistics, then appends one History
\* failure row carrying the error text, then notifies the owner and
\* returns false whether or not the notification could be sent; these
\* steps write nothing else.
C13_FailureBookkeeping ==
    [][\A t \in DOMAIN tasks :
           LET r == tasks[t]
               q == tasks'[t]
               own == r.post.owner_id
           IN (IsDispatch(r) /\ q # r)
              => /\ (r.pc = "ex_send" /\ q.pc # "ex_upd")
                      => q.pc = "ex_fstats" /\ posts' = posts /\ stats' = stats
                         /\ history' = history
                 /\ r.pc = "ex_fstats"
                      => /\ stats' = [stats EXCEPT ![own].posts_failed = @ + 1]
                         /\ history' = history /\ posts' = posts
                         /\ q.pc = "ex_fhist"
                 /\ r.pc = "ex_fhist"
                      => /\ history' = Append(history,
                                [post_id |-> r.pid, chat_id |-> r.post.chat_id,
                                 message_id |-> 0, success |-> 0, error_text |-> "error"])
                         /\ stats' = stats /\ posts' = posts
                         /\ q.pc = "ex_notify"
                 /\ r.pc = "ex_notify"
                      => /\ stats' = stats /\ history' = history /\ posts' = posts
                         /\ r.op = "fire" => q.pc = "done" /\ q.ret = "false"]_vars

C13_Witness ==
    \E t \in DOMAIN tasks :
        /\ Finished(t, "fire", "false")
        /\ tasks[t].notified = 0
        /\ tasks[t].post.post_id # 0
        /\ stats[tasks[t].post.owner_id].posts_failed = 1
        /\ Len(history) = 1
        /\ history[1].success = 0 /\ history[1].error_text # ""

JoinCalls(pid, uid) ==
    {t \in DOMAIN tasks : tasks[t].op = "participate" /\ tasks[t].pid = pid
                          /\ tasks[t].uid = uid}

\* C14: a participate call inserts the (post, user) row and answers
\* joined=true exactly when the row is not there, and otherwise changes
\* nothing and answers joined=false; no step removes a row.  So among the
\* calls for one pair, however they overlap, at most one is answered true,
\* every other one false, and the post's participant count grows by 1.
C14_ParticipateOnce ==
    /\ [](\A u \in Users :
              /\ Cardinality({t \in JoinCalls(1, u) : tasks[t].succ = 1}) <= 1
              /\ JoinCalls(1, u) # {} => <<1, u>> \in participants
              /\ \A t \in JoinCalls(1, u) :
                     tasks[t].pc = "done"
                         => tasks[t].ret = (IF tasks[t].succ = 1 THEN "joined" ELSE "already"))
    /\ [][/\ participants \subseteq participants'
          /\ \A t \in DOMAIN tasks :
                 (tasks[t].op = "idle" /\ tasks'[t].op = "participate")
                 => LET pair == <<tasks'[t].pid, tasks'[t].uid>>
                    IN IF pair \in participants
                       THEN participants' = participants /\ tasks'[t].succ = 0
                       ELSE /\ participants' = participants \cup {pair}
                            /\ Cardinality(participants') = Cardinality(participants) + 1
                            /\ tasks'[t].succ = 1]_vars

C14_Witness ==
    \E t1, t2 \in DOMAIN tasks :
        /\ Finished(t1, "participate", "joined")
        /\ Finished(t2, "participate", "already")
        /\ tasks[t1].uid = tasks[t2].uid
        /\ tasks[t1].pid = tasks[t2].pid
        /\ participants = {<<tasks[t1].pid, tasks[t1].uid>>}
        /\ tasks[t2].cnt = 1

\* C15: a react call is decided by the vote get_user_reaction finds for
\* the user on the post.  No vote: the new vote is inserted and the answer
\* is added.  A vote for another button: that vote is deleted, then the new
\* one inserted, and the answer is changed.  A vote for the same button: it
\* is deleted and the answer is removed.  No step writes anything else.
C15_ReactDecision ==
    [][\A t \in DOMAIN tasks :
           LET r == tasks[t]
               q == tasks'[t]
               V == VotesOf(reactions, q.pid, q.uid)
               new == <<r.pid, r.button, r.uid>>
               old == <<r.pid, r.existing, r.uid>>
           IN /\ (r.op = "idle" /\ q.op = "react")
                  => /\ reactions' = reactions
                     /\ V = {} => q.pc = "rc_new" /\ q.existing = ""
                     /\ V # {} => q.existing \in V
                     /\ (V # {} /\ q.existing = q.button) => q.pc = "rc_remove"
                     /\ (V # {} /\ q.existing # q.button) => q.pc = "rc_swap"
              /\ (r.op = "react" /\ q # r)
                  => /\ r.pc = "rc_new"
                         => reactions' = reactions \cup {new} /\ q.pc = "rc_count"
                     /\ r.pc = "rc_count"
                         => reactions' = reactions /\ q.pc = "done" /\ q.ret = "added"
                     /\ r.pc = "rc_swap"
                         => reactions' = reactions \ {old} /\ q.pc = "rc_add"
                     /\ r.pc = "rc_add"
                         => reactions' = reactions \cup {new}
                            /\ q.pc = "done" /\ q.ret = "changed"
                     /\ r.pc = "rc_remove"
                         => reactions' = reactions \ {new}
                            /\ q.pc = "done" /\ q.ret = "removed"]_vars

\* The third call of react(like), react(dislike), react(dislike) has
\* returned: the vote it found was dislike and no vote is left.
C15_Witness ==
    \E t \in DOMAIN tasks :
        /\ Finished(t, "react", "removed")
        /\ tasks[t].button = "dislike"
        /\ tasks[t].existing = "dislike"
        /\ CountReactions(reactions, 1, "like") = 0
        /\ CountReactions(reactions, 1, "dislike") = 0

\* C16: in every reachable state each (post, user) pair has at most one
\* reaction row.
C16_OneVotePerUser ==
    \A u \in Users : Cardinality(VotesOf(reactions, 1, u)) <= 1

VotesOfOthers(R, uid) == {x \in R : x[3] # uid}

\* C17: no step of a react call by one user changes a reaction row of
\* another user.
C17_ReactFrame ==
    [][\A t \in DOMAIN tasks :
           (tasks'[t] # tasks[t] /\ "react" \in {tasks[t].op, tasks'[t].op}
            /\ tasks'[t].op # "idle")
           => VotesOfOthers(reactions', tasks'[t].uid)
                  = VotesOfOthers(reactions, tasks'[t].uid)]_vars

\* User 1 picked like, user 2 picked like, user 1 switched to dislike.
C17_Witness ==
    \E t \in DOMAIN tasks :
        /\ Finished(t, "react", "changed")
        /\ tasks[t].uid = 1
        /\ tasks[t].existing = "like"
        /\ tasks[t].button = "dislike"
        /\ reactions = {<<1, "like", 2>>, <<1, "dislike", 1>>}
        /\ CountReactions(reactions, 1, "like") = 1
        /\ CountReactions(reactions, 1, "dislike") = 1

Registrable(post) ==
    /\ post.post_id # 0
    /\ post.is_active = 1
    /\ post.schedule_type # "instant"
    /\ Schedulable(post)
    /\ ValidTimes(post.scheduled_time)
    /\ post.schedule_type = "once" => ParseDate(post.scheduled_date) # BadDate

C19_AbsentPostNoEffect ==
    [][\A t \in DOMAIN tasks :
           LET r == tasks[t]
               q == tasks'[t]
           IN (r.op = "fire" /\ r.pc = "ex_get" /\ q # r /\ posts[r.pid].post_id = 0)
              => /\ q.pc = "done" /\ q.ret = "false"
                 /\ q.mid = 0 /\ q.notified = 0
                 /\ UNCHANGED <<posts, nextId, participants, reactions, stats, history,
                                tz, jobs, nextMsg>>]_vars

C19_Witness ==
    \E t \in DOMAIN tasks :
        /\ Finished(t, "fire", "false")
        /\ ~Exists(tasks[t].pid)
        /\ tasks[t].post = NoPost
        /\ history = <<>>
        /\ nextMsg = 1
        /\ stats[1].posts_sent = 0 /\ stats[1].posts_failed = 0

\* C20: a request to any endpoint of the panel whose token is missing or
\* maps to no user is answered 401 in its first step, which changes
\* neither the store nor the registry; such a request takes no other step.
C20_Unauthorized ==
    /\ [](\A t \in DOMAIN tasks :
              (tasks[t].op \in WebOps /\ tasks[t].token \notin Users)
              => tasks[t].pc = "done" /\ tasks[t].ret = "401")
    /\ [][\A t \in DOMAIN tasks :
              (tasks[t].op = "idle" /\ tasks'[t].op \in WebOps
               /\ tasks'[t].token \notin Users)
              => UNCHANGED <<posts, nextId, participants, reactions, stats, history, tz,
                             jobs, nextMsg>>]_vars

C20_Witness ==
    \E t \in DOMAIN tasks :
        /\ Finished(t, "web_delete", "401")
        /\ tasks[t].token \in {BadToken, NoToken}
        /\ Exists(1)
        /\ IsActive(posts[1])
        /\ JobsOf(jobs, 1) # {}

\* C21: a scheduled fire that loads its post with is_active = 0 delivers
\* nothing to the chat; so the remaining time of a once post that its
\* first successful send deactivated delivers nothing.
C21_InactiveNotDelivered ==
    [][\A t \in DOMAIN tasks :
           LET r == tasks[t]
               q == tasks'[t]
           IN (r.op = "fire" /\ r.pc = "ex_send" /\ q.pc = "ex_upd")
              => r.post.is_active # 0]_vars

\* C22: when a handler that registers post 1 (toggle, edit of the time)
\* and a handler that unregisters it (delete, toggle) have both returned
\* and the post is absent or inactive, the registry holds no entry of the
\* post, however the two handlers overlapped.
C22_NoEntryAfterRace ==
    \A t1, t2 \in DOMAIN tasks :
        (/\ t1 # t2
         /\ tasks[t1].pc = "done" /\ tasks[t1].op \in {"toggle", "edit"}
         /\ tasks[t1].pid = 1
         /\ tasks[t2].pc = "done" /\ tasks[t2].op \in {"delete", "toggle"}
         /\ tasks[t2].pid = 1
         /\ ~(Exists(1) /\ IsActive(posts[1])))
        => JobsOf(jobs, 1) = {}

\* C23: a bulk-disable or bulk-delete leaves every registry entry of a
\* post whose row it did not change as it was: the entries of other
\* users' posts and of the user's posts outside the filter.
C23_BulkFrame ==
    [][\A t \in DOMAIN tasks :
           (tasks[t].op = "idle" /\ tasks'[t].op \in {"bulk_delete", "bulk_disable"})
           => \A k \in DOMAIN jobs :
                  posts'[k[1]] = posts[k[1]]
                      => k \in DOMAIN jobs' /\ jobs'[k] = jobs[k]]_vars

\* C24: whenever no handler is in progress, every active, non-instant post
\* with valid recurrence fields has at least one registry entry, however
\* it came into the store.
C24_ActiveHasEntry ==
    Quiet => \A p \in DOMAIN posts : Registrable(posts[p]) => JobsOf(jobs, p) # {}

\* C25: the steps of a scheduled dispatch whose delivery raised (the
\* failed send, the failure statistics, the History row, the notification)
\* leave every post row, every posts_sent counter and the registry
\* unchanged, send nothing more to the chat, start no other dispatch and
\* end the dispatch with the result false; and the fire of a recurring
\* trigger leaves its entry in the registry, so the post is attempted
\* again at its next occurrence.
C25_FailureFrame ==
    [][\A t \in DOMAIN tasks :
           LET r == tasks[t]
               q == tasks'[t]
           IN /\ (r.op = "fire" /\ q # r
                  /\ (r.pc \in FailPath \/ (r.pc = "ex_send" /\ q.pc # "ex_upd")))
                  => /\ q.pc \in FailPath \cup {"done"}
                     /\ r.pc = "ex_send" => q.pc = "ex_fstats"
                     /\ q.pc = "done" => q.ret = "false"
                     /\ q.mid = 0
                     /\ posts' = posts
                     /\ \A u \in Users : stats'[u].posts_sent = stats[u].posts_sent
                     /\ jobs' = jobs
                     /\ nextMsg' = nextMsg
                     /\ \A u \in DOMAIN tasks \ {t} : tasks'[u] = tasks[u]
              /\ (r.op = "idle" /\ q.op = "fire" /\ jobs[q.job].kind = "cron")
                  => jobs' = jobs]_vars

\* The first fire of a daily post failed; its next occurrence was sent.
C25_Witness ==
    \E t \in DOMAIN tasks :
        /\ Finished(t, "fire", "true")
        /\ tasks[t].post.schedule_type = "daily"
        /\ tasks[t].job \in DOMAIN jobs
        /\ Len(history) = 2
        /\ history[1].post_id = tasks[t].pid /\ history[1].success = 0
        /\ history[2].post_id = tasks[t].pid /\ history[2].success = 1
        /\ Exists(tasks[t].pid)
        /\ posts[tasks[t].pid].execution_count = 1
        /\ posts[tasks[t].pid].is_active = 1
        /\ stats[1].posts_sent = 1 /\ stats[1].posts_failed = 1

\* A non-instant row whose recurrence fields are inconsistent.
Malformed(post) ==
    /\ post.post_id # 0
    /\ post.schedule_type \in ScheduleTypes
    /\ \/ ~Schedulable(post)
       \/ ~ValidTimes(post.scheduled_time)
       \/ post.schedule_type = "once" /\ ParseDate(post.scheduled_date) = BadDate

\* C26: when a save, a toggle or an edit of the time has called
\* _register_job for a malformed post and has ended, no exception came out
\* of the registration and the registry holds no entry of the post.
C26_MalformedSkipped ==
    \A t \in DOMAIN tasks :
        (/\ tasks[t].pc = "done"
         /\ tasks[t].op \in {"save", "toggle", "edit"}
         /\ tasks[t].pid \in PostIds
         /\ IsActive(posts[tasks[t].pid])
         /\ Malformed(posts[tasks[t].pid]))
        => /\ tasks[t].ret \notin {"raised", "format_error"}
           /\ JobsOf(jobs, tasks[t].pid) = {}

\* Handlers that act on one post named by the request.
OnePostOps == {"toggle", "delete", "edit", "setting", "web_update", "web_delete"}

\* C27: no step of a toggle, edit, option or delete request, from the bot
\* or from the web, made by a user who is not the owner of the post changes
\* the post's row or its registry entries.
C27_OwnerOnly ==
    [][\A t \in DOMAIN tasks :
           LET q == tasks'[t]
           IN (/\ q # tasks[t]
               /\ q.op \in OnePostOps
               /\ q.pid \in PostIds
               /\ posts[q.pid].post_id # 0
               /\ q.uid # posts[q.pid].owner_id)
              => /\ posts'[q.pid] = posts[q.pid]
                 /\ JobsOf(jobs', q.pid) = JobsOf(jobs, q.pid)
                 /\ \A k \in JobsOf(jobs, q.pid) : jobs'[k] = jobs[k]]_vars

\* The wall-clock times of the registry entries of post p.
EntryTimes(p) == {[h |-> jobs[k].h, m |-> jobs[k].m] : k \in JobsOf(jobs, p)}

\* The times of the scheduled_time list of a row.
StoredTimes(post) ==
    {ParseTime(post.scheduled_time[i]) : i \in 1..Len(post.scheduled_time)}

\* C28: when the bot's edit-time flow on an active post has ended, the
\* times of the post's registry entries are the times of the stored list;
\* and the step that ends a web PUT of scheduled_time on an active post
\* whose entries followed the stored list leaves them following the list
\* it stored.
C28_EntriesFollowStoredTimes ==
    /\ [](\A t \in DOMAIN tasks :
              (/\ Finished(t, "edit", "updated")
               /\ tasks[t].pid \in PostIds
               /\ Registrable(posts[tasks[t].pid]))
              => EntryTimes(tasks[t].pid) = StoredTimes(posts[tasks[t].pid]))
    /\ [][\A t \in DOMAIN tasks :
              LET r == tasks[t]
              IN (/\ r.op = "web_update" /\ r.pc = "web_upd" /\ r.data.hasTm
                  /\ tasks'[t].pc = "done"
                  /\ Registrable(posts[r.pid])
                  /\ EntryTimes(r.pid) = StoredTimes(posts[r.pid])
                  /\ Registrable(posts'[r.pid]))
                 => EntryTimes(r.pid)' = StoredTimes(posts'[r.pid])]_vars

\* A dispatch that has loaded its post and has not returned.
InFlight(r) == r.op = "fire" /\ r.pc \notin {"ex_get", "done"}

\* C29: a delete or a toggle of a post whose fire is in flight ends
\* normally in its own steps and leaves the record of the dispatch as it
\* is; the dispatch can always take its next step, whether or not the row
\* and the entry are still there, every step of it goes on towards the
\* return, and it returns true or false.
C29_InFlightFireCompletes ==
    /\ [](\A t \in DOMAIN tasks : InFlight(tasks[t]) => ENABLED ExecSteps(t))
    /\ [][\A t \in DOMAIN tasks :
              LET r == tasks[t]
                  q == tasks'[t]
              IN /\ (q # r /\ q.op \in {"delete", "toggle"}
                     /\ \E x \in DOMAIN tasks : InFlight(tasks[x]) /\ tasks[x].pid = q.pid)
                     => /\ q.ret \in {"none", "deleted", "toggled", "not_found"}
                        /\ \A x \in DOMAIN tasks \ {t} : tasks'[x] = tasks[x]
                 /\ (InFlight(r) /\ q # r)
                     => /\ q.op = "fire"
                        /\ q.pc # r.pc
                        /\ q.pc \in PreHistory \cup FailPath \cup {"ex_pin", "ex_deact", "done"}
                        /\ q.pc = "done" => q.ret \in {"true", "false"}]_vars

\* The post was deleted after a fire of it had loaded it; the fire has
\* since passed its store writes and is about to write its History row.
C29_Witness ==
    \E t1, t2 \in DOMAIN tasks :
        /\ tasks[t1].op = "fire" /\ tasks[t1].pc = "ex_hist"
        /\ tasks[t1].post.post_id = 1
        /\ Finished(t2, "delete", "deleted")
        /\ tasks[t2].pid = 1
        /\ ~Exists(1)
        /\ JobsOf(jobs, 1) = {}
        /\ stats[1].posts_sent = 1

\* C30: every step that deletes a post's row from the store, single delete
\* or bulk delete, leaves no Participant row of that post, so that
\* count_participants of the deleted id is 0.
C30_DeleteCascades ==
    [][\A p \in DOMAIN posts :
           (posts[p].post_id # 0 /\ posts'[p].post_id = 0)
           => {x \in participants' : x[1] = p} = {}]_vars

\* A dispatch that has loaded its post and called the delivery channel.
Attempted(r) ==
    /\ IsDispatch(r)
    /\ r.post.post_id # 0
    /\ r.pc \notin {"ex_get", "ex_count", "ex_send", "pub_add"}

\* C31: every step leaves the History rows that exist as they are and
\* appends at most one row; a dispatch that has raised posts_sent does not
\* go on to raise posts_failed, and one that has appended its History
\* success row does not go on to append a failure row; and a dispatch that
\* attempted the delivery and returned has left a History row.
C31_OneHistoryRowPerDispatch ==
    /\ [][/\ \/ history' = history
             \/ \E row \in {history'[Len(history')]} : history' = Append(history, row)
          /\ \A t \in DOMAIN tasks :
                 LET r == tasks[t]  q == tasks'[t]
                 IN (IsDispatch(r) /\ r.pc \in {"ex_hist", "ex_pin", "ex_deact"})
                        => q.pc \notin {"ex_fstats", "ex_fhist"}]_vars
    /\ [](\A t \in DOMAIN tasks :
              (Attempted(tasks[t]) /\ tasks[t].pc = "done"
               /\ tasks[t].ret \in {"true", "false"})
                  => \E i \in 1..Len(history) : history[i].post_id = tasks[t].pid)

\* C32: a dispatch that is in the failure bookkeeping (posts_failed,
\* History failure row, owner notification), or has returned false after
\* loading its post, is one whose delivery call failed: it holds no
\* delivered message id.
C32_FailureOnlyForFailedDelivery ==
    \A t \in DOMAIN tasks :
        LET r == tasks[t]
        IN (/\ IsDispatch(r)
            /\ r.post.post_id # 0
            /\ \/ r.pc \in {"ex_fstats", "ex_fhist", "ex_notify"}
               \/ r.pc = "done" /\ r.ret = "false")
           => r.mid = 0

ButtonsOf(m) == UNION {{m[i][j] : j \in 1..Len(m[i])} : i \in 1..Len(m)}

\* C33: from the answer to a click until the end of the refresh, the
\* click's mutation is in the store (clicks of different users
\* overlapping); the refresh reads the participant count and then the
\* reaction counts from the rows the store holds at that moment; the
\* markup it renders carries those counts, so the participate button of a
\* participant shows at least 1 and the button a voter voted for shows a
\* count of at least 1; and the markup that a refresh puts on the message
\* includes the action of every voter whose own refresh has been shown.
C33_MarkupAfterMutation ==
    [][\A t \in DOMAIN tasks :
           LET r == tasks[t]
               q == tasks'[t]
               row == <<r.pid, r.button, r.uid>>
               Shows(m, id) ==
                   \E b \in ButtonsOf(m) : b.kind = "react" /\ b.target = id /\ b.count >= 1
           IN /\ (Answered(r) \/ r.pc \in {"ub_part", "ub_react"})
                  => /\ r.op = "participate" => <<r.pid, r.uid>> \in participants
                     /\ (r.op = "react" /\ r.ret \in {"added", "changed"}) => row \in reactions
                     /\ (r.op = "react" /\ r.ret = "removed") => row \notin reactions
              /\ (r.pc = "ub_part" /\ q # r) => q.cnt = CountParticipants(r.pid)
              /\ (r.pc = "ub_react" /\ q # r)
                  => /\ q.pc = "ub_edit"
                     /\ \A i \in 1..Len(r.post.reaction_buttons) :
                            LET id == r.post.reaction_buttons[i].id
                                n == CountReactions(reactions, r.pid, id)
                            IN \E b \in ButtonsOf(q.markup) :
                                   /\ b.kind = "react" /\ b.target = id
                                   /\ b.count = IF n > 0 THEN n ELSE NoCount
                     /\ \E b \in ButtonsOf(q.markup) : b.kind = "part" /\ b.count = r.cnt
                     /\ r.op = "participate" => r.cnt >= 1
                     /\ (r.op = "react" /\ r.ret \in {"added", "changed"})
                            => Shows(q.markup, r.button)
              /\ (r.pc = "ub_edit" /\ q # r)
                  => \A x \in DOMAIN tasks \ {t} :
                         LET v == tasks[x]
                         IN (/\ v.pc = "ub_shown" /\ v.pid = r.pid
                             /\ v.op = "react" /\ v.ret \in {"added", "changed"}
                             /\ <<v.pid, v.button, v.uid>> \in reactions)
                            => Shows(r.markup, v.button)]_vars

\* C34: the pin call writes nothing to the store; a dispatch whose pin
\* call failed is never in the failure bookkeeping and notifies nobody,
\* its later steps leave the statistics and the History as they are, its
\* History success row stays, the only write it still makes to the post
\* is the deactivation of a once post, and it returns true with an
\* execution_count, a delivered message id and a posts_sent recorded.
C34_PinFailureSwallowed ==
    /\ [][\A t \in DOMAIN tasks :
              LET r == tasks[t]  q == tasks'[t]
              IN (IsDispatch(r) /\ q # r /\ (r.pc = "ex_pin" \/ r.pinned = "failed"))
                     => /\ stats' = stats /\ history' = history
                        /\ r.pc = "ex_pin" => posts' = posts
                        /\ r.pc # "ex_pin"
                               => posts' \in {posts, SetActive(posts, r.pid, 0)}
                        /\ (r.pc = "ex_pin" /\ r.post.schedule_type = "once")
                               => q.pc = "ex_deact"]_vars
    /\ [](\A t \in DOMAIN tasks :
              LET r == tasks[t]
              IN (IsDispatch(r) /\ r.pinned = "failed")
                     => /\ r.pc \in {"ex_deact", "done"}
                        /\ r.notified = 0
                        /\ \E i \in 1..Len(history) :
                               history[i].message_id = r.mid /\ history[i].success = 1
                        /\ r.pc = "done"
                               => /\ r.ret = "true"
                                  /\ posts[r.pid].execution_count >= 1
                                  /\ posts[r.pid].sent_message_id # 0
                                  /\ stats[r.post.owner_id].posts_sent >= 1
                                  /\ r.post.schedule_type = "once"
                                         => posts[r.pid].is_active = 0)

\* A once post with pin-on-send was delivered, its pin call failed, and
\* the dispatch has returned true, the post deactivated and no failure
\* recorded.
C34_Witness ==
    \E t \in DOMAIN tasks :
        LET r == tasks[t]
        IN /\ Finished(t, "fire", "true")
           /\ r.pinned = "failed"
           /\ r.post.schedule_type = "once"
           /\ posts[r.pid].is_active = 0
           /\ stats[r.post.owner_id].posts_failed = 0
           /\ Len(history) = 1 /\ history[1].success = 1

\* C35: no step lowers posts_created, posts_sent or posts_failed of any
\* user.
C35_StatsNeverDecrease ==
    [][\A u \in Users :
           /\ stats'[u].posts_created >= stats[u].posts_created
           /\ stats'[u].posts_sent >= stats[u].posts_sent
           /\ stats'[u].posts_failed >= stats[u].posts_failed]_vars

\* The owner's post was created, sent once, failed once and then deleted,
\* and the three counters still hold 1.
C35_Witness ==
    /\ stats[1].posts_created = 1
    /\ stats[1].posts_sent = 1
    /\ stats[1].posts_failed = 1
    /\ ~Exists(1)
    /\ nextId = 2

\* C36: on every state, a step of the bootstrap's registration
\* (_register_single_job) is a step of the front-end's (_register_job) and
\* the other way round: from the same post, store and registry they leave
\* the same registry keys and triggers and the same result; and every step
\* of the bootstrap's dispatch is the same step of the front-end's
\* dispatch, with the same delivery outcome, store writes and result.
C36_CopiesEquivalent ==
    [][\A t \in DOMAIN tasks :
           /\ SingleJobGet(t) <=> RegGet(t)
           /\ SingleJobTz(t) <=> RegTz(t)
           /\ BotExecGet(t) <=> ExecGet(t)
           /\ BotExecCount(t) <=> ExecCount(t)
           /\ \A ok \in BOOLEAN : BotExecSend(t, ok) <=> ExecSend(t, ok)
           /\ BotExecUpdate(t) <=> ExecUpdate(t)
           /\ BotExecStats(t) <=> ExecStats(t)
           /\ BotExecHistory(t) <=> ExecHistory(t)
           /\ BotExecPin(t) <=> ExecPin(t)
           /\ BotExecDeactivate(t) <=> ExecDeactivate(t)
           /\ BotExecFailStats(t) <=> ExecFailStats(t)
           /\ BotExecFailHistory(t) <=> ExecFailHistory(t)
           /\ \A ok \in BOOLEAN : BotExecNotify(t, ok) <=> ExecNotify(t, ok)]_vars

\* A weekly post was registered over the two entries of an earlier daily
\* time list, and a fire of its entry has delivered it.
C36_Witness ==
    /\ Exists(1)
    /\ posts[1].schedule_type = "weekly"
    /\ DOMAIN jobs = {<<1, 0>>}
    /\ jobs[<<1, 0>>].dow = {1, 3}
    /\ \E t \in DOMAIN tasks : Finished(t, "fire", "true")
    /\ Len(history) = 1
    /\ posts[1].execution_count = 1

\* The markup m rendered from task record r has one row per button of
\* urls, then the row of the reaction buttons, each with its count from the
\* store when that is above 0, then the row of the participate button with
\* the participant count the dispatch read; and nothing else.
RowsAsClaimed(r, m, urls) ==
    LET rb == r.post.reaction_buttons
        nU == Len(urls)
        nR == IF rb # <<>> THEN 1 ELSE 0
        nP == IF r.post.has_participate_button # 0 THEN 1 ELSE 0
    IN /\ Len(m) = nU + nR + nP
       /\ \A i \in 1..nU : m[i] = <<Button("url", urls[i].text, urls[i].url, NoCount)>>
       /\ nR = 1 =>
              /\ Len(m[nU + 1]) = Len(rb)
              /\ \A j \in 1..Len(rb) :
                     LET n == CountReactions(reactions, r.post.post_id, rb[j].id)
                     IN m[nU + 1][j] =
                            Button("react", rb[j].text, rb[j].id, IF n > 0 THEN n ELSE NoCount)
       /\ nP = 1 => m[Len(m)] = <<Button("part", "join", "part", r.cnt)>>

SentAsClaimed(r, q) ==
    /\ q.markup = r.markup
    /\ r.post.media_file_id = "" => q.method = "send_message"
    /\ (/\ r.post.url_buttons = <<>> /\ r.post.reaction_buttons = <<>>
        /\ r.post.has_participate_button = 0) => q.markup = <<>>

\* C37: the markup a dispatch renders has one row per URL button of the
\* post, then the reaction row, then the participate row, and is empty
\* (none attached) when the post has none of the three; a post without a
\* media file is sent with send_message.
C37_MarkupRows ==
    [][\A t \in DOMAIN tasks :
           LET r == tasks[t]  q == tasks'[t]
           IN /\ (r.pc = "ex_rcount" /\ q # r) => RowsAsClaimed(r, q.markup, r.post.url_buttons)
              /\ (r.pc = "ex_send" /\ q # r) => SentAsClaimed(r, q)]_vars

\* C37 as amended: one row per URL button that has both a text and a url.
C37_MarkupRowsOfLabelledButtons ==
    [][\A t \in DOMAIN tasks :
           LET r == tasks[t]  q == tasks'[t]
               urls == SelectSeq(r.post.url_buttons, LAMBDA b : b.text # "" /\ b.url # "")
           IN /\ (r.pc = "ex_rcount" /\ q # r) => RowsAsClaimed(r, q.markup, urls)
              /\ (r.pc = "ex_send" /\ q # r)
                     => /\ SentAsClaimed(r, q)
                        /\ (urls = <<>> /\ r.post.reaction_buttons = <<>>
                            /\ r.post.has_participate_button = 0) => q.markup = <<>>]_vars

\* A post with three URL buttons, one of them without a text, two reaction
\* buttons and the participate button was sent with send_message and a
\* markup of four rows, the like button showing 2.
C37_Witness ==
    \E t \in DOMAIN tasks :
        LET r == tasks[t]
        IN /\ r.op = "fire" /\ r.method = "send_message"
           /\ Len(r.post.url_buttons) = 3
           /\ Len(r.markup) = 4
           /\ r.markup[3][1].count = 2
           /\ r.markup[4][1].kind = "part"

\* The posts publish-now made for user u, and the history rows of a set of posts.
PublishedBy(u) == {p \in DOMAIN posts : Exists(p) /\ posts[p].owner_id = u}

RowsOf(S) == SelectSeq(history, LAMBDA h : h.post_id \in S)

\* C38: a finished publish-now over K chats has made one instant post per
\* chat and dispatched each of them once, also the chats after a failed
\* one, and answers "published" exactly when all K dispatches succeeded,
\* "partial" when some but not all did, and "error" when none did.
C38_PublishNowStatus ==
    \A t \in DOMAIN tasks :
        LET r == tasks[t]
            mine == PublishedBy(r.uid)
            rows == RowsOf(mine)
            good == Len(SelectSeq(rows, LAMBDA h : h.success = 1))
        IN (r.op = "publish" /\ r.pc = "done") =>
               /\ Cardinality(mine) = r.total
               /\ \A p \in mine : posts[p].schedule_type = "instant"
               /\ {posts[p].chat_id : p \in mine} = {100 * i : i \in 1..r.total}
               /\ Len(rows) = r.total
               /\ \A p \in mine : Len(RowsOf({p})) = 1
               /\ r.succ = good
               /\ r.ret = "published" <=> good = r.total
               /\ r.ret = "partial" <=> (good > 0 /\ good < r.total)
               /\ r.ret = "error" <=> good = 0

\* A publish-now over two chats whose first delivery failed and whose
\* second succeeded has answered "partial".
C38_Witness ==
    \E t \in DOMAIN tasks :
        LET r == tasks[t]
            rows == RowsOf(PublishedBy(r.uid))
        IN /\ r.op = "publish" /\ r.pc = "done" /\ r.total = 2
           /\ Len(rows) = 2
           /\ rows[1].success = 0 /\ rows[2].success = 1
           /\ r.ret = "partial"

\* The connections held by the running store operations.
RECURSIVE HeldBy(_)
HeldBy(S) ==
    IF S = {} THEN 0
    ELSE LET t == CHOOSE x \in S : TRUE IN tasks[t].conn + HeldBy(S \ {t})

\* No operation holds two connections, and a store operation that ends,
\* by returning or by raising, has put its connection back.
OneConnReturned ==
    [][\A t \in DOMAIN tasks :
           /\ tasks'[t].conn <= 1
           /\ (tasks[t].pc = "db_run" /\ tasks'[t] # tasks[t])
                  => /\ tasks'[t].conn = 0
                     /\ pool'.idle = pool.idle + 1]_vars

\* C39: in every reachable state the connections waiting in the pool and
\* those held by running store operations add up to pool_size; an operation
\* holds at most one and returns it also when it raises.
C39_PoolConserved ==
    /\ [](pool.idle + HeldBy(DOMAIN tasks) = pool.size)
    /\ OneConnReturned

\* C39 as amended: the sum is pool_size until close() starts to drain the pool.
C39_PoolConservedWhileOpen ==
    /\ [](pool.state = "open" => pool.idle + HeldBy(DOMAIN tasks) = pool.size)
    /\ [](pool.idle + HeldBy(DOMAIN tasks) <= pool.size)
    /\ OneConnReturned

\* An operation has raised and left no connection behind, and another
\* holds the only connection of the open pool.
C39_Witness ==
    \E t, u \in DOMAIN tasks :
        /\ tasks[t].ret = "raised" /\ tasks[t].conn = 0
        /\ tasks[u].pc = "db_run" /\ tasks[u].conn = 1
        /\ pool.state = "open" /\ pool.idle = 0 /\ pool.size = 1

\* A handler that waits, for the delivery channel or for a connection,
\* holds no connection.
NoHoldAndWait ==
    \A t \in DOMAIN tasks : tasks[t].pc \in {"deliver", "db_wait"} => tasks[t].conn = 0

\* C40: no handler waits for the delivery channel or for a connection
\* while it holds one; so every operation that waits for a connection
\* obtains one, and a dispatch of another trigger runs to its end although
\* the delivery call of the first handler may never come back.
C40_NoDeadlock ==
    /\ []NoHoldAndWait
    /\ \A t \in PoolTasks : (tasks[t].pc = "db_wait") ~> (tasks[t].pc = "db_run")
    /\ \A t \in PoolTasks \ {1} : (tasks[t].op = "fire") ~> (tasks[t].pc = "done")

\* The first handler is a dispatch suspended at its send, holding nothing;
\* the pool has one connection, which a second dispatch holds or awaits.
C40_Witness ==
    /\ tasks[1].op = "fire" /\ tasks[1].pc = "deliver" /\ Head(tasks[1].steps) = "send"
    /\ pool.size = 1
    /\ \E t \in DOMAIN tasks :
           /\ tasks[t].op = "fire" /\ tasks[t].pc \in {"db_wait", "db_run"}
           /\ Has(tasks[t].steps, "notify") \/ ~Has(tasks[t].steps, "send")

====
